---- MODULE Spec2Model ----
(***************************************************************************)
(* A model of kpkg (Kandji Packages): the similarity matcher               *)
(* Utilities._find_lib_item_dynamic of src/helpers/utils.py and the        *)
(* artifact-processing cycle KPKG.main of src/kpkg.py with the scratch     *)
(* area of Utilities._expand_pkg_get_info, the metadata location inside an *)
(* expanded artifact (_plist_find_return, _pkg_metadata_find_return), the  *)
(* name clean-up of Configurator.get_install_media_metadata in             *)
(* src/helpers/configs.py, the catalog calls of KPKG.upload_custom_app,    *)
(* create_custom_app and update_custom_app with                            *)
(* Utilities._validate_response, and Utilities._run_command.               *)
(*                                                                         *)
(* A Python str is a sequence of one-character strings, so that slicing,   *)
(* containment ("x in y"), regular expressions and difflib can be computed *)
(* as the code computes them.                                              *)
(***************************************************************************)
EXTENDS Integers, Sequences, FiniteSets, TLC

VARIABLES
    \* ---- the matcher (Utilities._find_lib_item_dynamic) ----
    custom_apps,        \* self.custom_apps: the catalog snapshot, a sequence of records
    pkg_name,           \* self.pkg_name: basename of the artifact being processed
    custom_app_name,    \* self.custom_app_name: the library item name searched for
    mpc,                \* position of the matcher: "idle" | "start" | "returned" | "raised"
    possible_pkgs,      \* the candidates after the threshold filter (line 699)
    similarity_scores,  \* the scores dict (line 682), as a sequence of <<name, 2*M, T>>
    custom_pkg_name,    \* the winning file name (line 732, 764); <<>> when there is none
    custom_app          \* what _find_lib_item_dynamic returned: <<record>>, or <<>> for False

mvars == <<custom_apps, pkg_name, custom_app_name, mpc, possible_pkgs,
           similarity_scores, custom_pkg_name, custom_app>>

VARIABLES
    \* ---- one run of kpkg: the loop over packages and KPKG.main ----
    cpc,                \* position in KPKG.main (see CycleSteps)
    packages_left,      \* artifacts of the packages list still to be processed
    media,              \* what the file at arg_pkg_path is (see MediaKinds)
    use_package_map,    \* kpkg_config["use_package_map"] is True
    continuously_enforce, \* custom_app_enforcement == "continuously_enforce"
    install_type,       \* self.install_type: "unset" | "image" | "package"
    temp_dir,           \* self.temp_dir: "unset" | "None" | "created"
    dmg_is_mounted,     \* self.dmg_is_mounted: "unset" | "True" | "False"
    copied_pkg_path,    \* self.copied_pkg_path is a path (not None / unset)
    map_id,             \* self.map_id: "unset", or where it was read from
    app_vers,           \* self.app_vers: "unset", or where it was read from
    names_left,         \* entries of self.app_names the loop of main has not visited
    dir_on_disk,        \* the directory of temp_dir exists on disk
    attached,           \* the image is attached at tmp_dmg_mount
    tmp_pkg_exists,     \* os.path.exists(self.tmp_pkg_path)
    attach_tries,       \* hdiutil attach runs of the last _dmg_attach call
    attach_failed,      \* a call of this cycle returned at line 505
    reentries,          \* get_install_media_metadata(lookup_again=True) calls of this cycle
    release_log,        \* what _pkg_expand_cleanup attempted, in order
    raised,             \* the exception that left KPKG.main, or "none"
    raised_in,          \* the step it was raised in, or "none"
    imageinfo_ok,       \* hdiutil imageinfo succeeds on the file at arg_pkg_path
    pkginfo_ok,         \* installer -pkginfo succeeds on the file at arg_pkg_path
    catalog_writes      \* entries of app_names for which an upload, create or update was made

cvars == <<cpc, packages_left, media, use_package_map, continuously_enforce,
           install_type, temp_dir, dmg_is_mounted, copied_pkg_path, map_id,
           app_vers, names_left, dir_on_disk, attached, tmp_pkg_exists,
           attach_tries, attach_failed, reentries, release_log, raised,
           raised_in, imageinfo_ok, pkginfo_ok, catalog_writes>>

VARIABLES
    \* ---- metadata location inside an expanded artifact ----
    lpc,                \* position: "idle" | "expanded" | "returned" | "raised"
    lookup,             \* "full" | "id_package" | "id_image": id_query and self.install_type
    info_plist_paths,   \* what glob("**/Info.plist") yields, in its order
    package_infos,      \* what glob("**/PackageInfo") yields, in its order
    distro_files,       \* what glob("**/Distribution") yields
    package_map,        \* keys of self.package_map; {} when it is None or empty
    likely_plist,       \* index in info_plist_paths of the chosen plist, 0 when none
    route,              \* the return statement that produced the identity
    identity,           \* self.bundle_id, app_vers, app_name, pkg_id, map_id after the call
    lraised             \* the exception that left _expand_pkg_get_info, or "none"

lvars == <<lpc, lookup, info_plist_paths, package_infos, distro_files,
           package_map, likely_plist, route, identity, lraised>>

VARIABLES
    \* ---- name clean-up at the end of get_install_media_metadata ----
    npc,                \* position: "idle" | "queried" | "returned" | "raised"
    install_name,       \* self.install_name: <<>> for None, else <<str>>
    pkg_path,           \* os.path.basename(self.pkg_path)
    raw_name,           \* what the tool gave as self.install_name (lines 328-344)
    pkg_path_name,      \* self.pkg_path_name: <<>> for None, else <<str>>
    nraised             \* the exception that left get_install_media_metadata, or "none"

nvars == <<npc, install_name, raw_name, pkg_path, pkg_path_name, nraised>>

VARIABLES
    \* ---- the catalog calls of one artifact: KPKG.main's loop over app_names ----
    kpc,                \* position: "idle" | "loop" | "finished" | "exited" | "raised"
    app_names_left,     \* entries of self.app_names the loop has not visited
    arg_dry_run,        \* args.dry
    default_dry_run,    \* zz_defaults.dry_run of the config: "True" | "False" | "None"
    dry_run,            \* self.dry_run
    default_auto_create, \* zz_defaults.auto_create_app is True
    arg_create_new,     \* args.create
    custom_app_enforcement, \* self.custom_app_enforcement
    app_vers_set,       \* self.app_vers exists
    pkg_uploaded,       \* self.pkg_uploaded
    calls,              \* requests and look-ups made for the current app name, in order
    uploads,            \* file uploads to storage that succeeded, for this artifact
    returned            \* what create_custom_app/update_custom_app gave for the name

kvars == <<kpc, app_names_left, arg_dry_run, default_dry_run, dry_run,
           default_auto_create, arg_create_new, custom_app_enforcement,
           app_vers_set, pkg_uploaded, calls, uploads, returned>>

VARIABLES
    \* ---- one call of Utilities._run_command ----
    rpc,                \* position: "idle" | "called" | "returned"
    exit_code,          \* raw_out.returncode
    raw_stdout,         \* raw_out.stdout, decoded
    nostderr,           \* the nostderr argument
    run_return,         \* the return value: <<"False">> or the str of characters
    error_logged        \* log.error was called

rvars == <<rpc, exit_code, raw_stdout, nostderr, run_return, error_logged>>

vars == <<mvars, cvars, lvars, nvars, kvars, rvars>>

\* the attributes of self that the metadata location assigns
Unset == "unset"
\* the same for self.app_name, a str of characters once assigned
NameUnset == <<"unset">>
NoIdentity ==
    [bundle_id |-> Unset, app_vers |-> Unset, app_name |-> NameUnset,
     pkg_id |-> Unset, map_id |-> Unset]

\* the locator's variables while another part is observed
LocatorIdle ==
    /\ lpc = "idle"
    /\ lookup = "full"
    /\ info_plist_paths = <<>>
    /\ package_infos = <<>>
    /\ distro_files = <<>>
    /\ package_map = {}
    /\ likely_plist = 0
    /\ route = "none"
    /\ identity = NoIdentity
    /\ lraised = "none"

\* the catalog calls while another part of the program is examined
CatalogIdle ==
    /\ kpc = "idle"
    /\ app_names_left = 0
    /\ arg_dry_run = FALSE
    /\ default_dry_run = "None"
    /\ dry_run = FALSE
    /\ default_auto_create = FALSE
    /\ arg_create_new = FALSE
    /\ custom_app_enforcement = "install_once"
    /\ app_vers_set = FALSE
    /\ pkg_uploaded = FALSE
    /\ calls = <<>>
    /\ uploads = 0
    /\ returned = "none"

\* _run_command while another part of the program is examined
RunIdle ==
    /\ rpc = "idle"
    /\ exit_code = 0
    /\ raw_stdout = <<>>
    /\ nostderr = FALSE
    /\ run_return = <<>>
    /\ error_logged = FALSE

\* the name clean-up's variables while another part is observed
NameIdle ==
    /\ npc = "idle"
    /\ install_name = <<>>
    /\ raw_name = <<>>
    /\ pkg_path = <<>>
    /\ pkg_path_name = <<NameUnset>>
    /\ nraised = "none"


\* the matcher's variables while only the cycle is observed
MatchIdle ==
    /\ custom_apps = <<>>
    /\ pkg_name = <<>>
    /\ custom_app_name = <<>>
    /\ mpc = "idle"
    /\ possible_pkgs = <<>>
    /\ similarity_scores = <<>>
    /\ custom_pkg_name = <<>>
    /\ custom_app = <<>>

\* the cycle's variables while only the matcher is observed
CycleIdle ==
    /\ cpc = "idle"
    /\ packages_left = 0
    /\ media = "pkg"
    /\ use_package_map = FALSE
    /\ continuously_enforce = FALSE
    /\ install_type = "unset"
    /\ temp_dir = "unset"
    /\ dmg_is_mounted = "unset"
    /\ copied_pkg_path = FALSE
    /\ map_id = "unset"
    /\ app_vers = "unset"
    /\ names_left = 0
    /\ dir_on_disk = FALSE
    /\ attached = FALSE
    /\ tmp_pkg_exists = FALSE
    /\ attach_tries = 0
    /\ attach_failed = FALSE
    /\ reentries = 0
    /\ release_log = <<>>
    /\ raised = "none"
    /\ raised_in = "none"
    /\ imageinfo_ok = FALSE
    /\ pkginfo_ok = TRUE
    /\ catalog_writes = 0

(***************************************************************************)
(* Characters and str helpers                                              *)
(***************************************************************************)
Digits == {"0", "1", "2", "3", "4", "5", "6", "7", "8", "9"}

Lower == {"a", "b", "c", "d", "e", "f", "g", "h", "i", "j", "k", "l", "m",
          "n", "o", "p", "q", "r", "s", "t", "u", "v", "w", "x", "y", "z"}

Upper == {"A", "B", "C", "D", "E", "F", "G", "H", "I", "J", "K", "L", "M",
          "N", "O", "P", "Q", "R", "S", "T", "U", "V", "W", "X", "Y", "Z"}

\* the regular expression class \w
WordChars == Digits \cup Lower \cup Upper \cup {"_"}

\* int() of one decimal digit
DigitValue(c) ==
    CASE c = "0" -> 0 [] c = "1" -> 1 [] c = "2" -> 2 [] c = "3" -> 3
      [] c = "4" -> 4 [] c = "5" -> 5 [] c = "6" -> 6 [] c = "7" -> 7
      [] c = "8" -> 8 [] c = "9" -> 9

\* Python's "needle in hay" on str
Contains(needle, hay) ==
    \E i \in 0..(Len(hay) - Len(needle)) :
        SubSeq(hay, i + 1, i + Len(needle)) = needle

\* str.endswith
EndsWith(s, suffix) ==
    /\ Len(suffix) <= Len(s)
    /\ SubSeq(s, Len(s) - Len(suffix) + 1, Len(s)) = suffix

\* os.path.basename: what follows the last "/"
Basename(path) ==
    LET slashes == {i \in 1..Len(path) : path[i] = "/"}
        last == IF slashes = {} THEN 0
                ELSE CHOOSE i \in slashes : \A j \in slashes : j <= i
    IN SubSeq(path, last + 1, Len(path))

\* a list without its repeated elements, first occurrences kept in order
\* (the key order of a dict filled from the list)
RECURSIVE Dedup(_)
Dedup(s) ==
    IF s = <<>> THEN <<>>
    ELSE LET front == Dedup(SubSeq(s, 1, Len(s) - 1))
             x == s[Len(s)]
         IN IF \E i \in 1..Len(front) : front[i] = x THEN front
            ELSE Append(front, x)

(***************************************************************************)
(* difflib.SequenceMatcher(None, a, b).ratio()                             *)
(* Indices are Python's (0-based, half-open ranges); a[i] is a[i + 1] here. *)
(* The strings are far shorter than 200 characters, so difflib's autojunk  *)
(* heuristic never applies.                                                *)
(***************************************************************************)
\* length of the longest common run starting at a[i], b[j] inside the ranges
RECURSIVE CommonRun(_, _, _, _, _, _)
CommonRun(a, b, i, j, ahi, bhi) ==
    IF i < ahi /\ j < bhi /\ a[i + 1] = b[j + 1]
    THEN 1 + CommonRun(a, b, i + 1, j + 1, ahi, bhi)
    ELSE 0

\* find_longest_match: the longest block, of those the one starting earliest
\* in a, and of those the one starting earliest in b
FindLongestMatch(a, b, alo, ahi, blo, bhi) ==
    LET pairs == (alo..(ahi - 1)) \X (blo..(bhi - 1))
        run == [p \in pairs |-> CommonRun(a, b, p[1], p[2], ahi, bhi)]
        hits == {p \in pairs : run[p] > 0}
    IN IF hits = {} THEN <<alo, blo, 0>>
       ELSE LET best == CHOOSE p \in hits :
                           \A q \in hits :
                              \/ run[p] > run[q]
                              \/ /\ run[p] = run[q]
                                 /\ \/ p[1] < q[1]
                                    \/ p[1] = q[1] /\ p[2] <= q[2]
            IN <<best[1], best[2], run[best]>>

\* the total size of get_matching_blocks(): the longest block, then the
\* pieces to its left and to its right
RECURSIVE MatchingSize(_, _, _, _, _, _)
MatchingSize(a, b, alo, ahi, blo, bhi) ==
    LET m == FindLongestMatch(a, b, alo, ahi, blo, bhi)
        i == m[1]
        j == m[2]
        k == m[3]
    IN IF k = 0 THEN 0
       ELSE k + (IF alo < i /\ blo < j
                 THEN MatchingSize(a, b, alo, i, blo, j) ELSE 0)
              + (IF i + k < ahi /\ j + k < bhi
                 THEN MatchingSize(a, b, i + k, ahi, j + k, bhi) ELSE 0)

\* ratio() = 2.0 * M / T, kept exact as the pair <<2 * M, T>>
Ratio(a, b) ==
    <<2 * MatchingSize(a, b, 0, Len(a), 0, Len(b)), Len(a) + Len(b)>>

(***************************************************************************)
(* The regular expressions of _find_lib_item_dynamic                       *)
(***************************************************************************)
\* the {8} of the pattern _\w{8}(?=.pkg): the length of the random token
TokenLen == 8

\* the pattern _\w{8}(?=.pkg) matches at Python index i: an underscore, eight
\* word characters and, not consumed, any character but a newline (the dot is
\* not escaped) followed by "pkg"
TokenAt(s, i) ==
    /\ i + TokenLen + 4 <= Len(s)
    /\ s[i + 1] = "_"
    /\ \A k \in 1..TokenLen : s[i + 1 + k] \in WordChars
    /\ s[i + TokenLen + 2] # "\n"
    /\ SubSeq(s, i + TokenLen + 3, i + TokenLen + 5) = <<"p", "k", "g">>

\* re.sub(r"_\w{8}(?=.pkg)", "", s) from Python index i on: every leftmost
\* non-overlapping match is dropped
RECURSIVE RemoveTokenFrom(_, _)
RemoveTokenFrom(s, i) ==
    IF i >= Len(s) THEN <<>>
    ELSE IF TokenAt(s, i) THEN RemoveTokenFrom(s, i + TokenLen + 1)
         ELSE <<s[i + 1]>> \o RemoveTokenFrom(s, i + 1)

\* the substitution left out: the name is scored with its token
RemoveToken_Kept(s) == s

RemoveToken(s) == RemoveTokenFrom(s, 0)

\* re.sub(r"[ ]", ".", s)
SpacesToDots(s) == [i \in 1..Len(s) |-> IF s[i] = " " THEN "." ELSE s[i]]

\* re.sub("[^0-9\\.]", "", s)
IsVersionChar(c) == c \in Digits \cup {"."}

KeepVersionChars(s) == SelectSeq(s, IsVersionChar)

\* re.sub(r"[.]{2,}", ".", s): a run of dots becomes one dot
RECURSIVE CollapseDots(_)
CollapseDots(s) ==
    IF Len(s) < 2 THEN s
    ELSE IF s[1] = "." /\ s[2] = "." THEN CollapseDots(Tail(s))
         ELSE <<s[1]>> \o CollapseDots(Tail(s))

\* re.sub(r"^\.|\.$", "", s): a leading dot and a trailing dot are dropped
TrimDots(s) ==
    LET t == IF s # <<>> /\ s[1] = "." THEN Tail(s) ELSE s
    IN IF t # <<>> /\ t[Len(t)] = "." THEN SubSeq(t, 1, Len(t) - 1) ELSE t

\* reduce(... re_replacements.items(), maybepkg): the five substitutions in
\* the order of the dict
SanitizeVersion(maybepkg) ==
    TrimDots(CollapseDots(KeepVersionChars(SpacesToDots(RemoveToken(maybepkg)))))

(***************************************************************************)
(* packaging_version.parse and the order of the parsed versions            *)
(***************************************************************************)
\* int() of a run of decimal digits
RECURSIVE ParseInt(_)
ParseInt(ds) ==
    IF ds = <<>> THEN 0
    ELSE 10 * ParseInt(SubSeq(ds, 1, Len(ds) - 1)) + DigitValue(ds[Len(ds)])

\* the release segment: the numbers between the dots
RECURSIVE SplitRelease(_)
SplitRelease(v) ==
    LET dots == {i \in 1..Len(v) : v[i] = "."}
    IN IF dots = {} THEN <<ParseInt(v)>>
       ELSE LET d == CHOOSE i \in dots : \A j \in dots : i <= j
            IN <<ParseInt(SubSeq(v, 1, d - 1))>>
                   \o SplitRelease(SubSeq(v, d + 1, Len(v)))

\* Version._key compares the release without its trailing zeros
RECURSIVE StripTrailingZeros(_)
StripTrailingZeros(r) ==
    IF r # <<>> /\ r[Len(r)] = 0
    THEN StripTrailingZeros(SubSeq(r, 1, Len(r) - 1))
    ELSE r

\* A sanitized string holds digits and single inner dots only, so it is a
\* valid version unless it is empty. The empty string is no version: the
\* packaging release of the build decides whether parse raises InvalidVersion
\* or returns a LegacyVersion, which sorts below every Version.
ParseVersion(v) ==
    IF v = <<>> THEN [valid |-> FALSE, release |-> <<>>]
    ELSE [valid |-> TRUE, release |-> StripTrailingZeros(SplitRelease(v))]

\* tuple comparison of two releases
RECURSIVE ReleaseLess(_, _)
ReleaseLess(r, q) ==
    IF q = <<>> THEN FALSE
    ELSE IF r = <<>> THEN TRUE
    ELSE IF r[1] # q[1] THEN r[1] < q[1]
    ELSE ReleaseLess(Tail(r), Tail(q))

VersionLess(v, w) ==
    IF ~v.valid THEN w.valid
    ELSE w.valid /\ ReleaseLess(v.release, w.release)

\* sorted(s, key=..., reverse=True): descending and stable, elements that
\* compare equal keep their order
SortedDescending(s, Greater(_, _)) ==
    LET n == Len(s)
        pos(i) == 1 + Cardinality({j \in 1..n :
                          \/ Greater(s[j], s[i])
                          \/ ~Greater(s[i], s[j]) /\ j < i})
    IN [p \in 1..n |-> s[CHOOSE i \in 1..n : pos(i) = p]]

(***************************************************************************)
(* The inputs: artifact names, catalog file keys and library item names    *)
(***************************************************************************)
\* "MyApp-2.0.1.pkg"
Target_Plain ==
    <<"M", "y", "A", "p", "p", "-", "2", ".", "0", ".", "1", ".", "p",
    "k", "g">>

\* "MyApp-2.0.1_a1b2c3d4.pkg"
Target_Token ==
    <<"M", "y", "A", "p", "p", "-", "2", ".", "0", ".", "1", "_", "a",
    "1", "b", "2", "c", "3", "d", "4", ".", "p", "k", "g">>

\* "MyApp-Beta-2.0.1.pkg"
Target_Beta ==
    <<"M", "y", "A", "p", "p", "-", "B", "e", "t", "a", "-", "2", ".",
    "0", ".", "1", ".", "p", "k", "g">>

\* "MyApp-2.0.1_q1w2e3r4.pkg"
Key_201_q ==
    <<"M", "y", "A", "p", "p", "-", "2", ".", "0", ".", "1", "_", "q",
    "1", "w", "2", "e", "3", "r", "4", ".", "p", "k", "g">>

\* "MyApp-2.0.0_z9y8x7w6.pkg"
Key_200_z ==
    <<"M", "y", "A", "p", "p", "-", "2", ".", "0", ".", "0", "_", "z",
    "9", "y", "8", "x", "7", "w", "6", ".", "p", "k", "g">>

\* "MyApp-2.0.1_k5j6h7g8.pkg"
Key_201_k ==
    <<"M", "y", "A", "p", "p", "-", "2", ".", "0", ".", "1", "_", "k",
    "5", "j", "6", "h", "7", "g", "8", ".", "p", "k", "g">>

\* "MyApp-2.0.1_m1n2b3v4.pkg"
Key_201_m ==
    <<"M", "y", "A", "p", "p", "-", "2", ".", "0", ".", "1", "_", "m",
    "1", "n", "2", "b", "3", "v", "4", ".", "p", "k", "g">>

\* "MyApp-1.2.0.1_aaaaaaaa.pkg"
Key_1201_a ==
    <<"M", "y", "A", "p", "p", "-", "1", ".", "2", ".", "0", ".", "1",
    "_", "a", "a", "a", "a", "a", "a", "a", "a", ".", "p", "k", "g">>

\* "MyApp-2.0.1.0_bbbbbbbb.pkg"
Key_2010_b ==
    <<"M", "y", "A", "p", "p", "-", "2", ".", "0", ".", "1", ".", "0",
    "_", "b", "b", "b", "b", "b", "b", "b", "b", ".", "p", "k", "g">>

\* "MyApp-2.0.1_q1w2e3r4.pkg.dmg"
Key_201_q_dmg ==
    <<"M", "y", "A", "p", "p", "-", "2", ".", "0", ".", "1", "_", "q",
    "1", "w", "2", "e", "3", "r", "4", ".", "p", "k", "g", ".", "d", "m",
    "g">>

\* "MyApp-2.0.1_d4d4d4d4.dmg"
Key_201_d_dmg ==
    <<"M", "y", "A", "p", "p", "-", "2", ".", "0", ".", "1", "_", "d",
    "4", "d", "4", "d", "4", "d", "4", ".", "d", "m", "g">>

\* "MyApp-Lite-2.0.1_abcdefgh.pkg"
Key_Lite ==
    <<"M", "y", "A", "p", "p", "-", "L", "i", "t", "e", "-", "2", ".",
    "0", ".", "1", "_", "a", "b", "c", "d", "e", "f", "g", "h", ".", "p",
    "k", "g">>

\* "MyApplet-2.0.0_abcdefgh.pkg"
Key_Applet ==
    <<"M", "y", "A", "p", "p", "l", "e", "t", "-", "2", ".", "0", ".",
    "0", "_", "a", "b", "c", "d", "e", "f", "g", "h", ".", "p", "k", "g">>

\* "ca/MyApp-2.0.1_q1w2e3r4.pkg"
Key_201_q_dir ==
    <<"c", "a", "/", "M", "y", "A", "p", "p", "-", "2", ".", "0", ".",
    "1", "_", "q", "1", "w", "2", "e", "3", "r", "4", ".", "p", "k", "g">>

\* "MyApp"
Name_MyApp ==
    <<"M", "y", "A", "p", "p">>

\* "MyApp Beta"
Name_MyAppBeta ==
    <<"M", "y", "A", "p", "p", " ", "B", "e", "t", "a">>

\* "MyApp Lite"
Name_MyAppLite ==
    <<"M", "y", "A", "p", "p", " ", "L", "i", "t", "e">>

\* ".pkg"
DotPkg ==
    <<".", "p", "k", "g">>

\* the artifact names (self.pkg_name) the matcher is run for
TargetPool == {Target_Plain, Target_Token, Target_Beta}

\* the library item names (self.custom_app_name) searched for
NamePool == {Name_MyApp, Name_MyAppBeta}

\* A catalog record as the Kandji API returns it; file_updated and updated_at
\* stand for the instants their timestamp strings denote (1 is 2024-01-01,
\* 2 is 2024-02-01).
Entry(id, name, file_key, file_updated, updated_at) ==
    [id |-> id, name |-> name, file_key |-> file_key,
     file_updated |-> file_updated, updated_at |-> updated_at]

\* The records a catalog snapshot is drawn from: the two of the end-to-end
\* scenario, re-uploads of the same version, neighbouring versions, an image,
\* a record sharing an uploaded file, and records of other titles.
EntryPool ==
    { Entry(1, Name_MyApp, Key_201_q, 2, 2),
      Entry(2, Name_MyApp, Key_200_z, 1, 1),
      Entry(3, Name_MyApp, Key_201_k, 1, 2),
      Entry(4, Name_MyAppBeta, Key_201_m, 2, 1),
      Entry(5, Name_MyApp, Key_1201_a, 1, 1),
      Entry(6, Name_MyApp, Key_2010_b, 2, 2),
      Entry(7, Name_MyApp, Key_201_q_dmg, 1, 1),
      Entry(8, Name_MyApp, Key_201_d_dmg, 1, 2),
      Entry(9, Name_MyAppLite, Key_Lite, 1, 1),
      Entry(10, Name_MyAppLite, Key_Applet, 2, 2),
      Entry(11, Name_MyAppBeta, Key_201_q_dir, 2, 2) }

\* the most records a catalog snapshot holds
MaxApps == 3

\* the catalog snapshots: sequences of distinct records
RECURSIVE Catalogs(_)
Catalogs(n) ==
    IF n = 0 THEN {<<>>}
    ELSE LET shorter == Catalogs(n - 1)
             grow == {p \in shorter \X EntryPool :
                         /\ Len(p[1]) = n - 1
                         /\ \A i \in 1..Len(p[1]) : p[1][i] # p[2]}
         IN shorter \cup {Append(p[1], p[2]) : p \in grow}

(***************************************************************************)
(* Utilities._find_lib_item_dynamic                                        *)
(***************************************************************************)
\* ratio_limit = 0.85, as the fraction RatioLimitNum / RatioLimitDen
RatioLimitNum == 85

RatioLimitDen == 100

\* the comparison with > in place of >=
AtLeastLimit_Strict(ratio) ==
    IF ratio[2] = 0 THEN TRUE
    ELSE ratio[1] * RatioLimitDen > RatioLimitNum * ratio[2]

\* sorted_similar_pkgs.get(pkg) >= ratio_limit, for the ratio <<2 * M, T>>
\* (ratio() is 1.0 when both strings are empty)
AtLeastLimit(ratio) ==
    IF ratio[2] = 0 THEN TRUE
    ELSE ratio[1] * RatioLimitDen >= RatioLimitNum * ratio[2]

\* all_pkg_names: the basenames of the file keys that end in ".pkg"
HasPkgSuffix(app) == EndsWith(app.file_key, DotPkg)

AllPkgNames(apps) ==
    LET pkgs == SelectSeq(apps, HasPkgSuffix)
    IN [i \in 1..Len(pkgs) |-> Basename(pkgs[i].file_key)]

\* the score of one catalog file name: the token is removed from the catalog
\* name; self.pkg_name is compared as it is
ScoreOf(pkg, target) == Ratio(RemoveToken(pkg), target)

\* the file names of the catalog records
PkgNamePool == {Basename(e.file_key) : e \in EntryPool}

\* The scores, the sanitized version strings and the parsed versions of the
\* file names of the pool, computed once (f @@ <<>> is f, as a table).
ScoreMemo ==
    [p \in PkgNamePool \X TargetPool |-> ScoreOf(p[1], p[2])] @@ <<>>

SanitizedMemo == [pkg \in PkgNamePool |-> SanitizeVersion(pkg)] @@ <<>>

ParsedMemo == [pkg \in PkgNamePool |-> ParseVersion(SanitizedMemo[pkg])] @@ <<>>

SimilarityScore(pkg, target) == ScoreMemo[<<pkg, target>>]

\* similarity_scores: one item <<pkg, 2 * M, T>> per distinct name, in the
\* order of first insertion
SimilarityScores(apps, target) ==
    LET names == Dedup(AllPkgNames(apps))
    IN [i \in 1..Len(names) |->
           <<names[i]>> \o SimilarityScore(names[i], target)]

\* the order of two dict items by their ratio, 2 * M1 / T1 > 2 * M2 / T2
RatioGreater(x, y) == x[2] * y[3] > y[2] * x[3]

\* sorted_similar_pkgs
SortedSimilarPkgs(scores) == SortedDescending(scores, RatioGreater)

ScoreAtLeastLimit(item) == AtLeastLimit(<<item[2], item[3]>>)

\* possible_pkgs at line 699: the names at or above the limit
PossiblePkgs(scores) ==
    LET kept == SelectSeq(SortedSimilarPkgs(scores), ScoreAtLeastLimit)
    IN [i \in 1..Len(kept) |-> kept[i][1]]

\* matching_pkgs: for each hinted record in turn, the candidates contained in
\* its file key
RECURSIVE MatchingPkgs(_, _)
MatchingPkgs(possible_apps, possible) ==
    IF possible_apps = <<>> THEN <<>>
    ELSE LET InKey(pkg) == Contains(pkg, Head(possible_apps).file_key)
         IN SelectSeq(possible, InKey)
                \o MatchingPkgs(Tail(possible_apps), possible)

\* possible_pkgs after lines 703-710: replaced by matching_pkgs only when
\* hints are given and matching_pkgs is not empty
HintedPkgs(possible_apps, possible) ==
    LET matching_pkgs == MatchingPkgs(possible_apps, possible)
    IN IF possible_apps # <<>> /\ matching_pkgs # <<>> THEN matching_pkgs
       ELSE possible

\* provided_app_name: "".join of the set of the hinted names. The caller
\* passes records of one name, so the set holds one name; the join of several
\* is in the set's iteration order, which is taken here as some order.
RECURSIVE JoinNames(_)
JoinNames(names) ==
    IF names = {} THEN <<>>
    ELSE LET n == CHOOSE x \in names : TRUE
         IN n \o JoinNames(names \ {n})

ProvidedAppName(possible_apps) ==
    JoinNames({possible_apps[i].name : i \in 1..Len(possible_apps)})

\* the order of pkgs_versions_sorted: by the parsed sanitized version
\* the sort without reverse=True: ascending versions
VersionGreater_Ascending(p, q) == VersionLess(ParsedMemo[p], ParsedMemo[q])

VersionGreater(p, q) == VersionLess(ParsedMemo[q], ParsedMemo[p])

\* pkgs_versions_sorted, as its keys: the candidates by descending version
PkgsVersionsSorted(possible) == SortedDescending(Dedup(possible), VersionGreater)

\* highest_vers: the names whose sanitized version string contains that of
\* the first name (custom_pkg_vers in pkgs_versions_sorted.get(pkg))
HighestVers(sorted) ==
    LET custom_pkg_vers == SanitizedMemo[sorted[1]]
        HasTop(pkg) == Contains(custom_pkg_vers, SanitizedMemo[pkg])
    IN SelectSeq(sorted, HasTop)

\* app_record: next(app for app in self.custom_apps if pkg in file_key)
AppRecord(apps, pkg) ==
    LET InKey(app) == Contains(pkg, app.file_key)
    IN Head(SelectSeq(apps, InKey))

\* the key of min(): (parse_dt(pkg_uploaded), parse_dt(custom_li_modified))
OlderRecord(r, q) ==
    \/ r.file_updated < q.file_updated
    \/ r.file_updated = q.file_updated /\ r.updated_at < q.updated_at

\* oldest_app: min() returns the first of the smallest in iteration order
OldestApp(apps, highest) ==
    LET i == CHOOSE i \in 1..Len(highest) :
                 /\ \A j \in 1..Len(highest) :
                        ~OlderRecord(AppRecord(apps, highest[j]),
                                     AppRecord(apps, highest[i]))
                 /\ \A j \in 1..(i - 1) :
                        OlderRecord(AppRecord(apps, highest[i]),
                                    AppRecord(apps, highest[j]))
                        \/ OlderRecord(AppRecord(apps, highest[j]),
                                       AppRecord(apps, highest[i]))
    IN highest[i]

\* custom_pkg_name: the first of pkgs_versions_sorted, or the oldest of
\* highest_vers when that holds more than one name
CustomPkgName(apps, sorted) ==
    LET highest_vers == HighestVers(sorted)
    IN IF Len(highest_vers) > 1 THEN OldestApp(apps, highest_vers)
       ELSE sorted[1]

\* matching_entry (lines 767-770)
MatchingEntry(apps, possible_apps, winner) ==
    LET InKey(app) == Contains(winner, app.file_key)
        HasName(app) == Contains(ProvidedAppName(possible_apps), app.name)
        found == SelectSeq(apps, InKey)
    IN IF Len(found) > 1 /\ possible_apps # <<>>
       THEN SelectSeq(found, HasName)
       ELSE found

\* whether sorted() at line 725 raises: parse() is called on every sanitized
\* version, and the empty string is invalid unless the build still has
\* LegacyVersion
RaisesInvalidVersion(possible, legacy) ==
    /\ ~legacy
    /\ \E i \in 1..Len(possible) : ~ParsedMemo[possible[i]].valid

\* Lines 729-779, from the candidates on: the winning file name and the value
\* returned, <<app>> for a catalog record and <<>> for False (a StopIteration
\* of next(), caught at line 777).
FindLibItemDynamic(apps, possible_apps, possible) ==
    LET sorted == PkgsVersionsSorted(possible)
    IN IF sorted = <<>> THEN [custom_pkg_name |-> <<>>, custom_app |-> <<>>]
       ELSE LET winner == CustomPkgName(apps, sorted)
                entries == MatchingEntry(apps, possible_apps, winner)
            IN [custom_pkg_name |-> winner,
                custom_app |-> IF entries = <<>> THEN <<>>
                               ELSE <<Head(entries)>>]

\* app_picker of _find_lib_item_match: the records of the name searched for
AppPicker(apps, name) ==
    LET Named(app) == app.name = name
    IN SelectSeq(apps, Named)

\* The hints _find_lib_item_match passes: app_picker when it holds more than
\* one record (line 626), none when it is empty (line 611).
PossibleApps(apps, name) ==
    IF Len(AppPicker(apps, name)) > 1 THEN AppPicker(apps, name) ELSE <<>>

(***************************************************************************)
(* The matcher as a state machine                                          *)
(***************************************************************************)
InitMatch ==
    /\ custom_apps \in Catalogs(MaxApps)
    /\ pkg_name \in TargetPool
    /\ custom_app_name \in NamePool
    /\ mpc = "start"
    /\ possible_pkgs = <<>>
    /\ similarity_scores = <<>>
    /\ custom_pkg_name = <<>>
    /\ custom_app = <<>>
    /\ CycleIdle
    /\ LocatorIdle
    /\ NameIdle
    /\ CatalogIdle
    /\ RunIdle

\* _find_lib_item_match reaches _find_lib_item_dynamic when the name searched
\* for has no record or more than one
CallFindLibItemDynamic ==
    /\ mpc = "start"
    /\ Len(AppPicker(custom_apps, custom_app_name)) # 1
    /\ LET scores == SimilarityScores(custom_apps, pkg_name)
           possible == PossiblePkgs(scores)
           hints == PossibleApps(custom_apps, custom_app_name)
           hinted == HintedPkgs(hints, possible)
       IN /\ similarity_scores' = scores
          /\ possible_pkgs' = possible
          /\ \E legacy \in BOOLEAN :
                IF RaisesInvalidVersion(hinted, legacy)
                THEN /\ mpc' = "raised"
                     /\ custom_pkg_name' = <<>>
                     /\ custom_app' = <<>>
                ELSE LET found == FindLibItemDynamic(custom_apps, hints, hinted)
                     IN /\ mpc' = "returned"
                        /\ custom_pkg_name' = found.custom_pkg_name
                        /\ custom_app' = found.custom_app
    /\ UNCHANGED <<custom_apps, pkg_name, custom_app_name>>
    /\ UNCHANGED <<cvars, lvars, nvars, kvars, rvars>>

NextMatch == CallFindLibItemDynamic

SpecMatch == InitMatch /\ [][NextMatch]_vars

(***************************************************************************)
(* Properties of the matcher                                               *)
(***************************************************************************)
InSeq(x, s) == \E i \in 1..Len(s) : s[i] = x

\* the hints of the call and the candidates after lines 703-710
Hints == PossibleApps(custom_apps, custom_app_name)

Candidates == HintedPkgs(Hints, possible_pkgs)

\* a name that ends in an underscore, eight word characters and ".pkg"
HasTailToken(s) ==
    /\ Len(s) >= TokenLen + 5
    /\ EndsWith(s, DotPkg)
    /\ s[Len(s) - TokenLen - 4] = "_"
    /\ \A k \in 1..TokenLen : s[Len(s) - TokenLen - 4 + k] \in WordChars

\* such a name without that token
WithoutTailToken(s) ==
    SubSeq(s, 1, Len(s) - TokenLen - 5) \o DotPkg

ScenarioCatalog ==
    /\ Len(custom_apps) = 2
    /\ {custom_apps[1], custom_apps[2]}
          = {Entry(2, Name_MyApp, Key_200_z, 1, 1),
             Entry(1, Name_MyApp, Key_201_q, 2, 2)}

TopVersionGroup ==
    {n \in {Candidates[i] : i \in 1..Len(Candidates)} :
        \A i \in 1..Len(Candidates) :
           ~VersionLess(ParsedMemo[n], ParsedMemo[Candidates[i]])}

\* the catalog records stored under a file name
RecordsOf(n) ==
    {custom_apps[i] : i \in {j \in 1..Len(custom_apps) :
                                Basename(custom_apps[j].file_key) = n}}

\* C4: when several candidates share the top parsed version, the winning file
\* name is one of them and a record of it is the oldest of their records:
\* none of their records has an earlier file_updated, or the same
\* file_updated and an earlier updated_at.
C4_OldestOfTopVersion ==
    (mpc = "returned" /\ Cardinality(TopVersionGroup) > 1) =>
        /\ custom_pkg_name \in TopVersionGroup
        /\ \E w \in RecordsOf(custom_pkg_name) :
              \A n \in TopVersionGroup :
                 \A r \in RecordsOf(n) : ~OlderRecord(r, w)

\* C5: a record is returned only if its own stored file name passed the
\* limit; when no file name passes, False is returned and nothing is raised.
C5_ReturnedNameScored ==
    /\ (mpc = "returned" /\ custom_app # <<>>) =>
          InSeq(Basename(custom_app[1].file_key), possible_pkgs)
    /\ (mpc # "start" /\ possible_pkgs = <<>>) =>
          (mpc = "returned" /\ custom_app = <<>>)

\* C6: when hinted records are passed, a record that is returned is one of
\* the hinted records.
C6_ReturnedIsHinted ==
    (mpc = "returned" /\ Hints # <<>> /\ custom_app # <<>>) =>
        InSeq(custom_app[1], Hints)

\* C7: a record that is returned has a file key ending in .pkg.
C7_ReturnedIsPkg ==
    (mpc = "returned" /\ custom_app # <<>>) =>
        EndsWith(custom_app[1].file_key, DotPkg)

(***************************************************************************)
(* The scratch area: Utilities._expand_pkg_get_info                        *)
(***************************************************************************)
MediaKinds == {"pkg", "dmg_app", "dmg_pkg", "other"}

CycleSteps == {"new", "probed", "configured", "loop", "done", "skipped",
               "raised", "terminated"}

\* most hdiutil attach runs of one _dmg_attach call that are followed
MaxAttachTries == 3

\* most entries of self.app_names
MaxAppNames == 2

\* most artifacts of one run (the packages list of the command line)
MaxPackages == 2

\* what the external tools and the files of the artifact do during one call
ToolChoices ==
    [attach_ok : BOOLEAN,       \* the last hdiutil attach run succeeded
     tries : 1..MaxAttachTries, \* hdiutil attach runs of _dmg_attach
     expand_ok : BOOLEAN,       \* pkgutil --expand-full succeeded
     reprobe_ok : BOOLEAN,      \* the copied package is recognised as a package
     map_ok : BOOLEAN,          \* the package map file is read
     plist_ok : BOOLEAN,        \* a core Info.plist is found
     manifest_ok : BOOLEAN]     \* a PackageInfo with id and version is found

\* the fields of the object and of the disk that a call reads and writes
Cur ==
    [install_type |-> install_type, temp_dir |-> temp_dir,
     dmg_is_mounted |-> dmg_is_mounted, copied_pkg_path |-> copied_pkg_path,
     map_id |-> map_id, app_vers |-> app_vers, dir_on_disk |-> dir_on_disk,
     attached |-> attached, tmp_pkg_exists |-> tmp_pkg_exists,
     attach_tries |-> attach_tries, attach_failed |-> attach_failed,
     reentries |-> reentries, release_log |-> release_log, raised |-> "none"]

Raise(s, exc) == [s EXCEPT !.raised = exc]

\* _dmg_attach: each failed run is followed by a detach of the existing mount
\* and, if that succeeds, by another run; a failure of the first run leaves
\* the mount as it was, a later failure comes after a detach that succeeded
DmgAttach(s, env) ==
    [s EXCEPT !.attach_tries = env.tries,
              !.attached = IF env.attach_ok THEN TRUE
                           ELSE IF env.tries > 1 THEN FALSE ELSE @]

\* _pkg_metadata_find_return: the id and version of a PackageInfo, or raise
PkgMetadataFindReturn(s, env, field) ==
    IF env.manifest_ok
    THEN IF field = "map_id" THEN [s EXCEPT !.map_id = "manifest"]
                             ELSE [s EXCEPT !.app_vers = "manifest"]
    ELSE Raise(s, "Exception")

\* the call _expand_pkg_get_info(id_query=True) made by _populate_package_map
\* during the re-entry: the install type is "package" and the package is
\* already expanded
NestedIdQuery(s, env) ==
    PkgMetadataFindReturn([s EXCEPT !.dmg_is_mounted = "False"], env, "map_id")

\* _populate_package_map
PopulatePackageMap(s, env) ==
    IF ~use_package_map THEN s
    ELSE IF ~env.map_ok THEN Raise(s, "Exception")
    ELSE NestedIdQuery(s, env)

\* get_install_media_metadata(lookup_again=True) on the copied package
GetInstallMediaMetadataAgain(s, env) ==
    IF ~env.reprobe_ok THEN Raise(s, "OSError")
    ELSE PopulatePackageMap([s EXCEPT !.install_type = "package"], env)

\* lines 545-553: the id query
IdQuery(s, env) ==
    IF s.install_type = "package"
    THEN PkgMetadataFindReturn(s, env, "map_id")
    ELSE IF env.plist_ok THEN [s EXCEPT !.map_id = "plist"]
         ELSE Raise(s, "RuntimeError")

\* lines 554-590: Info.plist first, PackageInfo when there is none
FullLookup(s, env) ==
    IF env.plist_ok THEN [s EXCEPT !.app_vers = "plist"]
    ELSE PkgMetadataFindReturn(s, env, "app_vers")

\* a test that sends every expanded package through the copy and the second
\* look-up
InstallTypeDiffers_Always(itype) == TRUE

\* line 533: "if self.install_type != 'package'", the test that guards the
\* copy of the nested package and the second look-up
InstallTypeDiffers(itype) == itype # "package"

\* lines 527-542: expand the package, and for a package found in an image
\* copy it out and look the media up again
ExpandChosenPkg(s, env) ==
    IF ~s.tmp_pkg_exists /\ ~env.expand_ok THEN Raise(s, "Exception")
    ELSE LET e == [s EXCEPT !.tmp_pkg_exists = TRUE]
         IN IF InstallTypeDiffers(e.install_type)
            THEN GetInstallMediaMetadataAgain(
                    [e EXCEPT !.copied_pkg_path = TRUE,
                              !.reentries = @ + 1], env)
            ELSE e

\* _expand_pkg_get_info(id_query) with cleanup=False, lines 487-590
ExpandPkgGetInfo(s, id_query, env) ==
    IF s.temp_dir = "unset" THEN Raise(s, "AttributeError")
    ELSE
    LET s1 == [s EXCEPT !.temp_dir = "created",
                        !.dir_on_disk = IF s.temp_dir = "None" THEN TRUE ELSE @,
                        !.dmg_is_mounted = "False"]
        image == s1.install_type = "image"
        s2 == IF image THEN DmgAttach(s1, env) ELSE s1
    IN IF image /\ ~env.attach_ok
       THEN [s2 EXCEPT !.attach_failed = TRUE]
       ELSE LET s3 == IF image THEN [s2 EXCEPT !.dmg_is_mounted = "True"] ELSE s2
                chosen_pkg == image /\ media = "dmg_pkg"
                s4 == IF s3.install_type = "package" \/ chosen_pkg
                      THEN ExpandChosenPkg(s3, env) ELSE s3
            IN IF s4.raised # "none" THEN s4
               ELSE IF id_query THEN IdQuery(s4, env)
               ELSE FullLookup(s4, env)

\* what the disk lets one release do
ReleaseChoices ==
    [detach_ok : BOOLEAN,     \* the hdiutil detach of line 468 unmounts
     rm_ok : BOOLEAN,         \* the first removal meets no other obstacle
     force_ok : BOOLEAN,      \* the hdiutil detach of line 474 unmounts
     retry_ok : BOOLEAN]      \* the second removal meets no other obstacle

LogEntry(op, ok, was_attached) ==
    [op |-> op, ok |-> ok, was_attached |-> was_attached]

\* _dmg_detach: a detach of an image that is not attached changes nothing
DmgDetach(s, ok) ==
    [s EXCEPT !.attached = IF ok THEN FALSE ELSE @,
              !.release_log = Append(@, LogEntry("detach", ok, s.attached))]

\* self.temp_dir.cleanup(): nothing to do when the directory is gone already;
\* else the removal fails while an image is mounted inside the directory, and
\* may fail for a reason of its own
TempDirCleanup(s, ok) ==
    LET done == ~s.dir_on_disk \/ (ok /\ ~s.attached)
    IN [s EXCEPT !.dir_on_disk = IF done THEN FALSE ELSE @,
                 !.tmp_pkg_exists = IF done THEN FALSE ELSE @,
                 !.release_log = Append(@, LogEntry("rmtree", done, s.attached))]

\* the last self.temp_dir.cleanup() returned (it raised OSError otherwise)
CleanupDone(s) == s.release_log[Len(s.release_log)].ok

\* _pkg_expand_cleanup, lines 465-477
PkgExpandCleanup(s, env) ==
    IF s.dmg_is_mounted = "unset" THEN Raise(s, "AttributeError")
    ELSE
    LET s1 == IF s.dmg_is_mounted = "True" THEN DmgDetach(s, env.detach_ok) ELSE s
        s2 == TempDirCleanup(s1, env.rm_ok)
    IN IF CleanupDone(s2) THEN s2
       ELSE LET s3 == DmgDetach(s2, env.force_ok)
                s4 == TempDirCleanup(s3, env.retry_ok)
            IN IF CleanupDone(s4) THEN s4 ELSE Raise(s4, "OSError")

(***************************************************************************)
(* KPKG.main and the loop over the packages                                *)
(***************************************************************************)
\* what the two probes of get_install_media_metadata answer for a file: an
\* image answers the image probe, a package the package probe, and another
\* file neither; a file that answers the image probe may answer both
ProbesFit(kind, image_probe, package_probe) ==
    /\ image_probe \in BOOLEAN
    /\ package_probe \in BOOLEAN
    /\ image_probe <=> kind \in {"dmg_app", "dmg_pkg"}
    /\ kind = "pkg" => package_probe
    /\ kind = "other" => ~package_probe

\* the probes in the order of the package probe first
ProbeInstallType_PackageFirst(image_probe, package_probe) ==
    IF package_probe THEN "package"
    ELSE IF image_probe THEN "image"
    ELSE "unsupported"

\* get_install_media_metadata lines 309-321: hdiutil imageinfo first, then
\* installer -pkginfo, else OSError
ProbeInstallType(image_probe, package_probe) ==
    IF image_probe THEN "image"
    ELSE IF package_probe THEN "package"
    ELSE "unsupported"

\* the object after KPKG.__init__, for an artifact of some kind
NewKPKG ==
    /\ cpc' = "new"
    /\ media' \in MediaKinds
    /\ continuously_enforce' \in BOOLEAN
    /\ install_type' = "unset"
    /\ temp_dir' = "unset"
    /\ dmg_is_mounted' = "unset"
    /\ copied_pkg_path' = FALSE
    /\ map_id' = "unset"
    /\ app_vers' = "unset"
    /\ names_left' = 0
    /\ tmp_pkg_exists' = FALSE
    /\ attach_tries' = 0
    /\ attach_failed' = FALSE
    /\ reentries' = 0
    /\ release_log' = <<>>
    /\ raised' = "none"
    /\ raised_in' = "none"
    /\ imageinfo_ok' \in BOOLEAN
    /\ pkginfo_ok' \in BOOLEAN
    /\ ProbesFit(media', imageinfo_ok', pkginfo_ok')
    /\ catalog_writes' = 0

InitCycle ==
    /\ cpc = "new"
    /\ packages_left \in 0..(MaxPackages - 1)
    /\ media \in MediaKinds
    /\ use_package_map \in BOOLEAN
    /\ continuously_enforce \in BOOLEAN
    /\ install_type = "unset"
    /\ temp_dir = "unset"
    /\ dmg_is_mounted = "unset"
    /\ copied_pkg_path = FALSE
    /\ map_id = "unset"
    /\ app_vers = "unset"
    /\ names_left = 0
    /\ dir_on_disk = FALSE
    /\ attached = FALSE
    /\ tmp_pkg_exists = FALSE
    /\ attach_tries = 0
    /\ attach_failed = FALSE
    /\ reentries = 0
    /\ release_log = <<>>
    /\ raised = "none"
    /\ raised_in = "none"
    /\ ProbesFit(media, imageinfo_ok, pkginfo_ok)
    /\ catalog_writes = 0
    /\ MatchIdle
    /\ LocatorIdle
    /\ NameIdle
    /\ CatalogIdle
    /\ RunIdle

\* the fields of a call's result written back to the object and the disk
Store(r) ==
    /\ install_type' = r.install_type
    /\ temp_dir' = r.temp_dir
    /\ dmg_is_mounted' = r.dmg_is_mounted
    /\ copied_pkg_path' = r.copied_pkg_path
    /\ map_id' = r.map_id
    /\ app_vers' = r.app_vers
    /\ dir_on_disk' = r.dir_on_disk
    /\ attached' = r.attached
    /\ tmp_pkg_exists' = r.tmp_pkg_exists
    /\ attach_tries' = r.attach_tries
    /\ attach_failed' = r.attach_failed
    /\ reentries' = r.reentries
    /\ release_log' = r.release_log

\* where main goes after a step: on, or out with the exception
Continue(r, step, next) ==
    /\ raised' = r.raised
    /\ raised_in' = IF r.raised = "none" THEN "none" ELSE step
    /\ cpc' = IF r.raised = "none" THEN next ELSE "raised"

\* main lines 363-366 with get_install_media_metadata lines 309-321: the two
\* probes; a file that is neither image nor package makes main return False
GetInstallMediaMetadata ==
    /\ cpc = "new"
    /\ LET probed == ProbeInstallType(imageinfo_ok, pkginfo_ok)
       IN IF probed = "unsupported"
          THEN /\ cpc' = "skipped"
               /\ UNCHANGED install_type
          ELSE /\ cpc' = "probed"
               /\ install_type' = probed
    /\ UNCHANGED <<packages_left, media, use_package_map, continuously_enforce,
                   temp_dir, dmg_is_mounted, copied_pkg_path, map_id, app_vers,
                   names_left, dir_on_disk, attached, tmp_pkg_exists,
                   attach_tries, attach_failed, reentries, release_log, raised,
                   raised_in, imageinfo_ok, pkginfo_ok, catalog_writes>>
    /\ UNCHANGED <<mvars, lvars, nvars, kvars, rvars>>

\* _populate_package_map lines 108-116 read self.map_id, which only a
\* completed id query has set
MapIdRead(r) ==
    IF r.raised = "none" /\ r.map_id = "unset"
    THEN Raise(r, "AttributeError") ELSE r

\* main line 369, populate_from_config: the scratch fields are set to None,
\* the config is read, and with a package map the id query is made
PopulateFromConfig ==
    /\ cpc = "probed"
    /\ \E cfg \in {"ok", "invalid", "fatal"}, env \in ToolChoices,
          names \in 1..MaxAppNames :
          LET s0 == [Cur EXCEPT !.temp_dir = "None"]
              r == IF cfg = "invalid" THEN Raise(s0, "Exception")
                   ELSE IF cfg = "fatal" THEN Raise(s0, "SystemExit")
                   ELSE IF ~use_package_map THEN s0
                   ELSE IF ~env.map_ok THEN Raise(s0, "Exception")
                   ELSE MapIdRead(ExpandPkgGetInfo(s0, TRUE, env))
          IN /\ Store(r)
             /\ Continue(r, "config", "configured")
             /\ names_left' = IF r.raised = "none" THEN names ELSE 0
    /\ UNCHANGED <<packages_left, media, use_package_map, continuously_enforce,
                   imageinfo_ok, pkginfo_ok, catalog_writes>>
    /\ UNCHANGED <<mvars, lvars, nvars, kvars, rvars>>

\* main lines 372-374: the full extraction when the enforcement needs it
MainEnforcement ==
    /\ cpc = "configured"
    /\ \E env \in ToolChoices :
          LET r == IF continuously_enforce
                   THEN ExpandPkgGetInfo(Cur, FALSE, env) ELSE Cur
          IN /\ Store(r)
             /\ Continue(r, "expand", "loop")
    /\ UNCHANGED <<packages_left, media, use_package_map, continuously_enforce,
                   names_left, imageinfo_ok, pkginfo_ok, catalog_writes>>
    /\ UNCHANGED <<mvars, lvars, nvars, kvars, rvars>>

\* main lines 380-390, one entry of app_names: kandji_customize_create_update.
\* The catalog request may fail (raise Exception) and a response may be fatal
\* (sys.exit); update_custom_app makes the full extraction at line 334, after
\* the upload, when the existing item is continuously enforced, the local
\* setting is not, and app_vers is not known yet.  An entry is written
\* (upload, create or update) unless the request for the catalog failed, no
\* item was found and none is created, or the installer is already there.
KandjiCustomizeCreateUpdate ==
    /\ cpc = "loop"
    /\ names_left > 0
    /\ \E out \in {"ok", "Exception", "SystemExit"}, audit \in BOOLEAN,
          wrote \in BOOLEAN, env \in ToolChoices :
          LET written == wrote /\ out # "Exception"
              differs == audit /\ ~continuously_enforce /\ written
              r == IF differs /\ app_vers = "unset"
                   THEN ExpandPkgGetInfo(Cur, FALSE, env) ELSE Cur
              q == IF r.raised = "none" /\ out # "ok" THEN Raise(r, out) ELSE r
          IN /\ Store(q)
             /\ Continue(q, "update", "loop")
             /\ continuously_enforce' =
                   IF differs /\ r.raised = "none" THEN TRUE
                   ELSE continuously_enforce
             /\ catalog_writes' = catalog_writes + (IF written THEN 1 ELSE 0)
    /\ names_left' = names_left - 1
    /\ UNCHANGED <<packages_left, media, use_package_map, imageinfo_ok,
                   pkginfo_ok>>
    /\ UNCHANGED <<mvars, lvars, nvars, kvars, rvars>>

\* main lines 392-398 after the loop: the copied package is removed and the
\* scratch area released with _expand_pkg_get_info(cleanup=True)
ReleaseScratch ==
    /\ cpc = "loop"
    /\ names_left = 0
    /\ \E env \in ReleaseChoices :
          LET r == PkgExpandCleanup(Cur, env)
          IN /\ Store(r)
             /\ Continue(r, "cleanup", "done")
    /\ UNCHANGED <<packages_left, media, use_package_map, continuously_enforce,
                   names_left, imageinfo_ok, pkginfo_ok, catalog_writes>>
    /\ UNCHANGED <<mvars, lvars, nvars, kvars, rvars>>

\* an exception or sys.exit left main: the loop of line 438 has no handler and
\* the interpreter ends.  The finalizer of the TemporaryDirectory, unless
\* cleanup() was called before, tries the removal once more and cannot remove
\* a directory with an image mounted inside.
ProcessExit ==
    /\ cpc = "raised"
    /\ cpc' = "terminated"
    /\ \E ok \in BOOLEAN :
          LET removed == /\ temp_dir = "created"
                         /\ release_log = <<>>
                         /\ ok
                         /\ ~attached
          IN /\ dir_on_disk' = IF removed THEN FALSE ELSE dir_on_disk
             /\ tmp_pkg_exists' = IF removed THEN FALSE ELSE tmp_pkg_exists
    /\ UNCHANGED <<packages_left, media, use_package_map, continuously_enforce,
                   install_type, temp_dir, dmg_is_mounted, copied_pkg_path,
                   map_id, app_vers, names_left, attached, attach_tries,
                   attach_failed, reentries, release_log, raised, raised_in,
                   imageinfo_ok, pkginfo_ok, catalog_writes>>
    /\ UNCHANGED <<mvars, lvars, nvars, kvars, rvars>>

\* the loop of lines 438-440: main returned, the next artifact gets a new object
NextPackage ==
    /\ cpc \in {"done", "skipped"}
    /\ packages_left > 0
    /\ packages_left' = packages_left - 1
    /\ NewKPKG
    /\ UNCHANGED <<use_package_map, dir_on_disk, attached>>
    /\ UNCHANGED <<mvars, lvars, nvars, kvars, rvars>>

NextCycle ==
    \/ GetInstallMediaMetadata
    \/ PopulateFromConfig
    \/ MainEnforcement
    \/ KandjiCustomizeCreateUpdate
    \/ ReleaseScratch
    \/ ProcessExit
    \/ NextPackage

SpecCycle == InitCycle /\ [][NextCycle]_vars

(***************************************************************************)
(* Properties of the cycle                                                 *)
(***************************************************************************)
CycleTypeOK ==
    /\ cpc \in CycleSteps
    /\ packages_left \in 0..MaxPackages
    /\ media \in MediaKinds
    /\ install_type \in {"unset", "image", "package"}
    /\ temp_dir \in {"unset", "None", "created"}
    /\ dmg_is_mounted \in {"unset", "True", "False"}
    /\ names_left \in 0..MaxAppNames
    /\ attach_tries \in 0..MaxAttachTries
    /\ raised \in {"none", "Exception", "OSError", "RuntimeError",
                   "AttributeError", "SystemExit"}
    /\ raised_in \in {"none", "config", "expand", "update", "cleanup"}
    /\ ProbesFit(media, imageinfo_ok, pkginfo_ok)
    /\ catalog_writes \in 0..MaxAppNames

\* the cycle is over: main returned, or the interpreter ended
CycleEnded == cpc \in {"done", "skipped", "terminated"}

\* the removals that the release attempted, in order
Removals == SelectSeq(release_log, LAMBDA e : e.op = "rmtree")

\* C8: when a cycle in which the scratch directory was created or an image
\* attached is over, by return of main or by an exception or exit on any
\* failure path, the image is not attached and the directory is gone; the
\* same holds when the next artifact starts.
C8_ReleasedAtCycleEnd ==
    /\ (CycleEnded /\ (temp_dir = "created" \/ attach_tries > 0)) =>
          (~attached /\ ~dir_on_disk)
    /\ cpc = "new" => (~attached /\ ~dir_on_disk)

\* C9: the flag dmg_is_mounted is "True" whenever the image is attached, and
\* a release that starts with the image attached attempts the unmount before
\* it attempts the removal of the directory.
C9_UnmountBeforeRemoval ==
    /\ attached => dmg_is_mounted = "True"
    /\ (release_log # <<>> /\ release_log[1].was_attached) =>
          release_log[1].op = "detach"

\* C10: a release attempts the removal at most twice, a second time exactly
\* when the first failed and after a forced unmount; when the second removal
\* fails too, no exception leaves main.
C10_CleanupFailureNotFatal ==
    /\ Len(Removals) <= 2
    /\ (Len(Removals) >= 1 /\ ~Removals[1].ok) => Len(Removals) = 2
    /\ Len(Removals) = 2 =>
          /\ ~Removals[1].ok
          /\ release_log[Len(release_log) - 1].op = "detach"
    /\ (Len(Removals) = 2 /\ ~Removals[2].ok) =>
          (raised = "none" /\ cpc \notin {"raised", "terminated"})

\* the fields that a release leaves behind
Released(s) ==
    <<s.temp_dir, s.dmg_is_mounted, s.dir_on_disk, s.attached,
      s.tmp_pkg_exists, s.raised>>

\* C11: a release called when no scratch area was acquired in the cycle
\* (temp_dir still None) completes without error, and a release called again
\* after main's release returned completes without error and leaves the
\* object and the disk as they were.
C11_ReleaseIdempotent ==
    /\ temp_dir = "None" => raised_in # "cleanup"
    /\ cpc = "done" =>
          \A env \in ReleaseChoices :
             Released(PkgExpandCleanup(Cur, env)) = Released(Cur)

\* C12: once an attach of the image has failed in a cycle, no identity is
\* recorded and no entry is uploaded, created or updated in that cycle.
C12_MountFailureAborts ==
    [][(attach_failed /\ cpc' # "new") =>
          (app_vers' = "unset" /\ catalog_writes' = catalog_writes)]_vars

\* C13: after the probes the install type is image when the image probe
\* succeeds, also when the package probe would succeed too, and package when
\* only the package probe succeeds; when both fail main returns at once,
\* with no scratch directory, no attach, no expansion and no catalog write.
C13_ProbeOrder ==
    /\ cpc = "probed" =>
          /\ imageinfo_ok => install_type = "image"
          /\ (~imageinfo_ok /\ pkginfo_ok) => install_type = "package"
    /\ (~imageinfo_ok /\ ~pkginfo_ok /\ cpc # "new") => cpc = "skipped"
    /\ cpc = "skipped" =>
          /\ ~imageinfo_ok /\ ~pkginfo_ok
          /\ install_type = "unset"
          /\ temp_dir = "unset"
          /\ attach_tries = 0
          /\ ~tmp_pkg_exists
          /\ catalog_writes = 0
          /\ raised = "none"

\* C13 witness: a file that answers both probes has been probed as an image.
C13_Witness ==
    /\ cpc = "probed"
    /\ imageinfo_ok
    /\ pkginfo_ok
    /\ install_type = "image"

\* C18: a bundle-metadata search that finds no qualifying file is followed by
\* the manifest search in every mode: its RuntimeError never leaves the
\* extraction.
C18_FallbackInEveryMode == raised # "RuntimeError"

(***************************************************************************)
(* Metadata location in an expanded artifact: _get_dir_size,               *)
(* _get_largest_entry, _plist_find_return, _pkg_metadata_find_return and   *)
(* the end of _expand_pkg_get_info (src/helpers/utils.py 254-277, 335-463, *)
(* 543-590)                                                                *)
(*                                                                         *)
(* A path is a sequence of components, each a str; a directory is a record *)
(* of the sizes of its regular files, the sizes of its symbolic links and  *)
(* its subdirectories. A value read from a plist or an XML attribute is a  *)
(* string, None when the key or the attribute is absent.                   *)
(***************************************************************************)
\* None, as the value of dict.get and Element.get for an absent key
None == "None"

\* bool(v) of a value that is a str or None
Truthy(v) == v \notin {None, ""}

\* None where a str of characters is expected
NameNone == <<"None">>

\* PurePath.as_posix() of an absolute path
RECURSIVE AsPosix(_)
AsPosix(path) ==
    IF path = <<>> THEN <<>>
    ELSE <<"/">> \o Head(path) \o AsPosix(Tail(path))

\* the sum of a sequence of sizes
RECURSIVE SumSizes(_)
SumSizes(sizes) ==
    IF sizes = <<>> THEN 0 ELSE Head(sizes) + SumSizes(Tail(sizes))

\* _get_dir_size: regular files count, symbolic links do not, directories
\* are descended into
RECURSIVE GetDirSize(_)
GetDirSize(dir) ==
    LET RECURSIVE SubDirs(_)
        SubDirs(ds) ==
            IF ds = <<>> THEN 0 ELSE GetDirSize(Head(ds)) + SubDirs(Tail(ds))
    IN SumSizes(dir.files) + SubDirs(dir.dirs)

\* a directory without subdirectories
Leaf(files, links) == [files |-> files, links |-> links, dirs |-> <<>>]

\* directories of the inputs, sizes in KB
Dir_10 == Leaf(<<1, 9>>, <<>>)
Dir_50_Link == Leaf(<<50>>, <<1>>)
Dir_500_Nested ==
    [files |-> <<10>>, links |-> <<>>,
     dirs |-> <<Leaf(<<90>>, <<>>), Leaf(<<300, 100>>, <<1>>)>>]
Dir_500 == Leaf(<<500>>, <<>>)
Dir_900 == Leaf(<<900>>, <<>>)

DirPool == {Dir_10, Dir_50_Link, Dir_500_Nested, Dir_500, Dir_900}

\* _get_dir_size of the directories of the inputs, computed once
DirSizes == [dir \in DirPool |-> GetDirSize(dir)] @@ <<>>

\* _get_dir_size(os.path.dirname(file)), _get_dir_size(x.parent)
ParentDirSize(file) == DirSizes[file.dir]

\* the folders whose plists are ruled out
ExcludedFolders ==
    {<<"E", "x", "t", "e", "n", "s", "i", "o", "n", "s", "/">>,
     <<"F", "r", "a", "m", "e", "w", "o", "r", "k", "s", "/">>,
     <<"H", "e", "l", "p", "e", "r", "s", "/">>,
     <<"L", "i", "b", "r", "a", "r", "y", "/">>,
     <<"M", "a", "c", "O", "S", "/">>,
     <<"P", "l", "u", "g", "I", "n", "s", "/">>,
     <<"R", "e", "s", "o", "u", "r", "c", "e", "s", "/">>,
     <<"S", "h", "a", "r", "e", "d", "S", "u", "p", "p", "o", "r", "t", "/">>,
     <<"o", "p", "t", "/">>,
     <<"b", "i", "n", "/">>}

ContentsInfoPlist == <<"C", "o", "n", "t", "e", "n", "t", "s", "/", "I", "n", "f", "o", ".", "p", "l", "i", "s", "t">>

DotApp == <<".", "a", "p", "p">>

\* the condition of the list comprehension for one plist path
IsCoreAppPlist(path) ==
    LET posix == AsPosix(path)
    IN /\ Contains(ContentsInfoPlist, posix)
       /\ \A folder \in ExcludedFolders : ~Contains(folder, posix)

\* names of files and directories of the inputs
Name_Payload == <<"P", "a", "y", "l", "o", "a", "d">>
Name_A_app == <<"A", ".", "a", "p", "p">>
Name_B_app == <<"B", ".", "a", "p", "p">>
Name_C_app == <<"C", ".", "a", "p", "p">>
Name_Contents == <<"C", "o", "n", "t", "e", "n", "t", "s">>
Name_Info_plist == <<"I", "n", "f", "o", ".", "p", "l", "i", "s", "t">>
Name_Frameworks == <<"F", "r", "a", "m", "e", "w", "o", "r", "k", "s">>
Name_F_framework == <<"F", ".", "f", "r", "a", "m", "e", "w", "o", "r", "k">>

\* self.tmp_pkg_path, the root of the expanded artifact
ExpandedRoot == <<<<"t", "m", "p", "q", "7", "k", "2">>, <<"X", ".", "p", "k", "g">>>>

PlistKeys(id, vers, display, name) ==
    [CFBundleIdentifier |-> id, CFBundleShortVersionString |-> vers,
     CFBundleDisplayName |-> display, CFBundleName |-> name]

\* an Info.plist of the expanded artifact: its path, the directory it is
\* in and the keys it holds
Plist_A ==
    [path |-> ExpandedRoot \o <<Name_Payload, Name_A_app, Name_Contents, Name_Info_plist>>,
     dir |-> Dir_10,
     keys |-> PlistKeys("com.a", "1.0", NameNone, <<"A">>)]
Plist_B ==
    [path |-> ExpandedRoot \o <<Name_Payload, Name_B_app, Name_Contents, Name_Info_plist>>,
     dir |-> Dir_500_Nested,
     keys |-> PlistKeys("com.b", "2.0", <<"B", "e", "e">>, <<"B">>)]
Plist_C ==
    [path |-> ExpandedRoot \o <<Name_Payload, Name_C_app, Name_Contents, Name_Info_plist>>,
     dir |-> Dir_50_Link,
     keys |-> PlistKeys(None, "3.0", NameNone, NameNone)]
Plist_D ==
    [path |-> ExpandedRoot \o <<Name_Payload, Name_Contents, Name_Info_plist>>,
     dir |-> Dir_500,
     keys |-> PlistKeys("com.d", None, NameNone, <<"D", "e", "e">>)]
Plist_F ==
    [path |-> ExpandedRoot \o <<Name_Payload, Name_A_app, Name_Contents, Name_Frameworks,
                                Name_F_framework, Name_Contents, Name_Info_plist>>,
     dir |-> Dir_900,
     keys |-> PlistKeys("com.f", "9.0", NameNone, <<"F">>)]

PlistPool == {Plist_A, Plist_B, Plist_C, Plist_D, Plist_F}

\* the condition of the list comprehension for the plists of the inputs,
\* computed once
CoreAppPlists == [plist \in PlistPool |-> IsCoreAppPlist(plist.path)] @@ <<>>

\* a PackageInfo of the expanded artifact: the directory it is in and the
\* attributes of its root element
Manifest(dir, identifier, version) ==
    [dir |-> dir, identifier |-> identifier, version |-> version]

ManifestPool ==
    {Manifest(Dir_500_Nested, "com.a", "1.0"),
     Manifest(Dir_50_Link, "com.b", "2.0"),
     Manifest(Dir_10, "com.c", ""),
     Manifest(Dir_500, None, "1.0")}

\* a Distribution file: whether it has a product element, and that
\* element's attributes
Distribution(product, id, version) ==
    [product |-> product, id |-> id, version |-> version]

DistributionPool ==
    {Distribution(FALSE, None, None),
     Distribution(TRUE, "com.suite", ""),
     Distribution(TRUE, "com.suite", "1.0")}

\* self.package_map keys
PackageMaps == {{}, {"com.b", "com.c"}, {"com.a", "com.b", "com.c"}}

MaxPlists == 3
MaxManifests == 3

\* the orders in which a glob can yield up to n of the files of a pool
GlobResults(pool, n) ==
    {s \in UNION {[1..k -> pool] : k \in 0..n} :
        \A i, j \in 1..Len(s) : i # j => s[i] # s[j]}

\* the indices of s, in order, whose element satisfies Test
IndicesWhere(s, Test(_)) ==
    LET RECURSIVE From(_)
        From(i) ==
            IF i > Len(s) THEN <<>>
            ELSE (IF Test(s[i]) THEN <<i>> ELSE <<>>) \o From(i + 1)
    IN From(1)

\* _get_largest_entry over the files at the indices file_list of files:
\* max(dir_sizes, key=dir_sizes.get) is the first key, in insertion
\* order, of the greatest value
GetLargestEntry_Last(files, file_list) ==
    file_list[Len(file_list)]

GetLargestEntry(files, file_list) ==
    LET size(k) == ParentDirSize(files[file_list[k]])
        first == CHOOSE k \in 1..Len(file_list) :
                    /\ \A j \in 1..Len(file_list) : size(j) <= size(k)
                    /\ \A j \in 1..(k - 1) : size(j) < size(k)
    IN file_list[first]

\* _plist_find_return up to the choice of likely_plist: the index of the
\* chosen plist, 0 for raise RuntimeError
LikelyPlist(plists) ==
    LET IsCore(p) == CoreAppPlists[p]
        core_app_plists == IndicesWhere(plists, IsCore)
    IN IF Len(core_app_plists) > 1 THEN GetLargestEntry(plists, core_app_plists)
       ELSE IF Len(core_app_plists) = 1 THEN core_app_plists[1]
       ELSE 0

\* _parse_pkg_xml_id_name of a Distribution file
ParseDistribution(d) ==
    IF ~d.product THEN <<None, None>> ELSE <<d.id, d.version>>

\* _parse_pkg_xml_id_name of a PackageInfo file
ParsePackageInfo(m) == <<m.identifier, m.version>>

\* key of sorted(..., key=lambda x: _get_dir_size(x.parent), reverse=True)
LargerParentDir(m, n) == ParentDirSize(m) > ParentDirSize(n)

\* the first index of s whose element satisfies Test, 0 when there is none
FirstWhere(s, Test(_)) ==
    LET hits == IndicesWhere(s, Test)
    IN IF hits = <<>> THEN 0 ELSE hits[1]

\* the loop of lines 427-431 over the sorted manifests
MappedManifest(infos, map) ==
    LET Hit(m) == m.identifier \in map /\ Truthy(m.version)
    IN IF map = {} THEN 0 ELSE FirstWhere(infos, Hit)

\* the distribution loop without the test of the identifier
DistroManifest_VersionOnly(infos, distros) ==
    IF distros = <<>> THEN 0
    ELSE LET distro_vers == ParseDistribution(distros[1])[2]
             Hit(m) == m.version = distro_vers
         IN IF distro_vers = None THEN 0 ELSE FirstWhere(infos, Hit)

\* lines 433-443 over the sorted manifests
DistroManifest(infos, distros) ==
    IF distros = <<>> THEN 0
    ELSE LET distro_vers == ParseDistribution(distros[1])[2]
             Hit(m) == m.version = distro_vers /\ Truthy(m.identifier)
         IN IF distro_vers = None THEN 0 ELSE FirstWhere(infos, Hit)

\* the branch of _pkg_metadata_find_return that names the manifest, given
\* the indices found by the mapping loop and by the distribution loop
ManifestRoute_DistroFirst(mapped, distro) ==
    IF distro # 0 THEN "distribution"
    ELSE IF mapped # 0 THEN "mapping"
    ELSE "largest"

ManifestRoute(mapped, distro) ==
    IF mapped # 0 THEN "mapping"
    ELSE IF distro # 0 THEN "distribution"
    ELSE "largest"

\* _pkg_metadata_find_return
PkgMetadataFind(found, distros, map) ==
    LET infos == SortedDescending(found, LargerParentDir)
        failed == [raised |-> "Exception", route |-> "none",
                   pkg_id |-> Unset, pkg_vers |-> Unset]
        result(m, via) == [raised |-> "none", route |-> via,
                           pkg_id |-> m.identifier, pkg_vers |-> m.version]
        checked(m, via) ==
            IF Truthy(m.identifier) /\ Truthy(m.version) THEN result(m, via)
            ELSE failed
    IN IF Len(infos) > 1 THEN
           LET mapped == MappedManifest(infos, map)
               distro == DistroManifest(infos, distros)
               via == ManifestRoute(mapped, distro)
           IN IF via = "mapping" THEN result(infos[mapped], via)
              ELSE IF via = "distribution" THEN result(infos[distro], via)
              ELSE checked(infos[1], via)
       ELSE IF Len(infos) = 1 THEN checked(infos[1], "single")
       ELSE failed

\* Path(likely_plist).parents[1].name
LikelyAppName(path) == path[Len(path) - 2]

\* self.app_name of lines 572-580
AppName(plist) ==
    LET likely_app_name == LikelyAppName(plist.path)
        bundle_display == plist.keys.CFBundleDisplayName
        bundle_name == plist.keys.CFBundleName
    IN IF EndsWith(likely_app_name, DotApp) THEN likely_app_name
       ELSE IF bundle_display # NameNone THEN bundle_display \o DotApp
       ELSE IF bundle_name # NameNone THEN bundle_name \o DotApp
       ELSE NameNone

LookupModes == {"full", "id_package", "id_image"}

InitLocator ==
    /\ MatchIdle
    /\ CycleIdle
    /\ NameIdle
    /\ CatalogIdle
    /\ RunIdle
    /\ lpc = "expanded"
    /\ lookup \in LookupModes
    /\ info_plist_paths \in GlobResults(PlistPool, MaxPlists)
    /\ package_infos \in GlobResults(ManifestPool, MaxManifests)
    /\ distro_files \in GlobResults(DistributionPool, 1)
    /\ package_map \in PackageMaps
    /\ likely_plist = 0
    /\ route = "none"
    /\ identity = NoIdentity
    /\ lraised = "none"

\* the end of _expand_pkg_get_info, lines 543-590, on the expanded artifact
LocateIdentity ==
    /\ lpc = "expanded"
    /\ LET chosen == LikelyPlist(info_plist_paths)
           manifest == PkgMetadataFind(package_infos, distro_files, package_map)
           by_plist == lookup = "id_image" \/ lookup = "full"
           by_manifest == lookup = "id_package" \/ (lookup = "full" /\ chosen = 0)
           keys == info_plist_paths[chosen].keys
       IN /\ likely_plist' = IF by_plist THEN chosen ELSE 0
          /\ IF lookup = "id_image" /\ chosen = 0
             THEN /\ lraised' = "RuntimeError"
                  /\ route' = "none"
                  /\ identity' = identity
             ELSE IF by_manifest /\ manifest.raised # "none"
             THEN /\ lraised' = manifest.raised
                  /\ route' = "none"
                  /\ identity' = identity
             ELSE /\ lraised' = "none"
                  /\ route' = IF by_manifest THEN manifest.route ELSE "plist"
                  /\ identity' =
                       IF lookup = "id_package"
                       THEN [identity EXCEPT !.map_id = manifest.pkg_id]
                       ELSE IF lookup = "id_image"
                       THEN [identity EXCEPT !.map_id = keys.CFBundleIdentifier]
                       ELSE IF chosen # 0
                       THEN [identity EXCEPT
                                !.bundle_id = keys.CFBundleIdentifier,
                                !.app_vers = keys.CFBundleShortVersionString,
                                !.app_name = AppName(info_plist_paths[chosen])]
                       ELSE [identity EXCEPT !.pkg_id = manifest.pkg_id,
                                             !.app_vers = manifest.pkg_vers]
    /\ lpc' = IF lraised' = "none" THEN "returned" ELSE "raised"
    /\ UNCHANGED <<lookup, info_plist_paths, package_infos, distro_files, package_map>>
    /\ UNCHANGED <<mvars, cvars, nvars, kvars, rvars>>

NextLocator == LocateIdentity

SpecLocator == InitLocator /\ [][NextLocator]_vars

(***************************************************************************)
(* Properties of the metadata location                                     *)
(***************************************************************************)
\* indices of the plists that remain after the auxiliary folders are ruled out
CorePlistIndices ==
    {i \in 1..Len(info_plist_paths) : CoreAppPlists[info_plist_paths[i]]}

\* the call searched the package manifests
ManifestSearch ==
    \/ lookup = "id_package"
    \/ lookup = "full" /\ CorePlistIndices = {}

\* the call searched the plists and came back with one
PlistSearchReturned ==
    lpc = "returned" /\ lookup \in {"full", "id_image"} /\ route = "plist"

\* C14: when several qualifying Info.plist candidates remain, the chosen one
\* is a qualifying candidate and no qualifying candidate lies in a directory
\* of greater total size
C14_LargestDirectorySelected ==
    (PlistSearchReturned /\ Cardinality(CorePlistIndices) > 1) =>
        /\ likely_plist \in CorePlistIndices
        /\ \A i \in CorePlistIndices :
              GetDirSize(info_plist_paths[i].dir)
                 <= GetDirSize(info_plist_paths[likely_plist].dir)

\* candidates in directories of 10KB, 500KB and 50KB: the 500KB one is chosen
C14_Witness ==
    /\ PlistSearchReturned
    /\ info_plist_paths = <<Plist_A, Plist_B, Plist_C>>
    /\ [i \in 1..3 |-> GetDirSize(info_plist_paths[i].dir)] = <<10, 500, 50>>
    /\ likely_plist = 2
    /\ identity.bundle_id = "com.b"

\* a manifest whose identifier is a key of the mapping and that has a version
MappedWithVersion(m) == m.identifier \in package_map /\ Truthy(m.version)

\* the identifier the call handed back
ReturnedId == IF lookup = "full" THEN identity.pkg_id ELSE identity.map_id

\* manifest i comes before manifest j in descending directory size, the
\* glob order deciding between equal sizes
BeforeInSizeOrder(i, j) ==
    LET si == GetDirSize(package_infos[i].dir)
        sj == GetDirSize(package_infos[j].dir)
    IN si > sj \/ (si = sj /\ i <= j)

\* C15: with several manifests and a mapping, a manifest with a mapped
\* identifier and a version is returned, whatever the distribution file
\* declares, and it is the first such manifest in descending directory size
C15_MappingBeforeDistribution ==
    (/\ lpc # "expanded"
     /\ ManifestSearch
     /\ Len(package_infos) > 1
     /\ \E i \in 1..Len(package_infos) : MappedWithVersion(package_infos[i]))
    =>
        /\ lpc = "returned"
        /\ route = "mapping"
        /\ \E i \in 1..Len(package_infos) :
              /\ MappedWithVersion(package_infos[i])
              /\ ReturnedId = package_infos[i].identifier
              /\ lookup = "full" => identity.app_vers = package_infos[i].version
              /\ \A j \in 1..Len(package_infos) :
                    MappedWithVersion(package_infos[j]) => BeforeInSizeOrder(i, j)

\* the mapping names the smaller com.b while the distribution file declares
\* the version of the larger com.a: com.b is returned
C15_Witness ==
    /\ lpc = "returned"
    /\ lookup = "full"
    /\ Len(package_infos) = 3
    /\ package_map = {"com.b", "com.c"}
    /\ distro_files = <<Distribution(TRUE, "com.suite", "1.0")>>
    /\ \E i \in 1..3 : package_infos[i] = Manifest(Dir_500_Nested, "com.a", "1.0")
    /\ route = "mapping"
    /\ identity.pkg_id = "com.b"
    /\ identity.app_vers = "2.0"

\* an attribute that was assigned a non-empty str
Populated(v) == v # Unset /\ Truthy(v)

\* C16: after a full extraction that returned, the identifier (bundle_id on
\* the plist route, pkg_id on the manifest route) and the version are both
\* populated and non-empty
C16_IdentityPopulated ==
    (lpc = "returned" /\ lookup = "full") =>
        /\ Populated(identity.app_vers)
        /\ route = "plist" => Populated(identity.bundle_id)
        /\ route # "plist" => Populated(identity.pkg_id)

\* C17: every pair the manifest search returns, on each of its return
\* paths, has a non-empty identifier and a non-empty version
C17_ManifestPairNonEmpty ==
    (lpc # "expanded" /\ ManifestSearch) =>
        LET pair == PkgMetadataFind(package_infos, distro_files, package_map)
        IN pair.raised = "none" => Truthy(pair.pkg_id) /\ Truthy(pair.pkg_vers)

(***************************************************************************)
(* Name clean-up: name_only_pattern and its two uses at the end of         *)
(* Configurator.get_install_media_metadata (src/helpers/configs.py         *)
(* 345-360)                                                                *)
(*                                                                         *)
(*   (?:[a-f0-9]{64}--)?([\w\s]+?)(?=\s+\d+\.\d+|[.-])                     *)
(***************************************************************************)
\* {64} of the optional hexadecimal prefix
HexLen == 64

HexChars == Digits \cup {"a", "b", "c", "d", "e", "f"}

\* \s within the alphabet of the inputs
SpaceChars == {" "}

\* [\w\s]
WordOrSpace == WordChars \cup SpaceChars

\* the character of s after offset p, "" at the end of s
CharAfter(s, p) == IF p < Len(s) THEN s[p + 1] ELSE ""

\* the offset after the longest run of characters of class at offset p
RECURSIVE RunEnd(_, _, _)
RunEnd(s, p, class) ==
    IF CharAfter(s, p) \in class THEN RunEnd(s, p + 1, class) ELSE p

\* (?=\s+\d+\.\d+|[.-]) at offset p
Lookahead(s, p) ==
    LET spaces == RunEnd(s, p, SpaceChars)
        digits == RunEnd(s, spaces, Digits)
    IN \/ /\ spaces > p
          /\ digits > spaces
          /\ CharAfter(s, digits) = "."
          /\ CharAfter(s, digits + 1) \in Digits
       \/ CharAfter(s, p) \in {".", "-"}

\* (?:[a-f0-9]{64}--) at offset p
HexPrefixAt(s, p) ==
    /\ p + HexLen + 2 <= Len(s)
    /\ \A i \in (p + 1)..(p + HexLen) : s[i] \in HexChars
    /\ s[p + HexLen + 1] = "-"
    /\ s[p + HexLen + 2] = "-"

\* the lengths k for which ([\w\s]+?) can end k characters after offset p
GroupLengths(s, p) ==
    {k \in 1..(Len(s) - p) :
        /\ \A i \in (p + 1)..(p + k) : s[i] \in WordOrSpace
        /\ Lookahead(s, p + k)}

\* the match of (.+)(?=...) at offset p: any characters, the longest run
GroupAt_GreedyAny(s, p) ==
    LET lengths == {k \in 1..(Len(s) - p) : Lookahead(s, p + k)}
    IN IF lengths = {} THEN <<>>
       ELSE <<SubSeq(s, p + 1, p + (CHOOSE k \in lengths : \A j \in lengths : j <= k))>>

\* the match of ([\w\s]+?)(?=...) at offset p: <<group(1)>>, the shortest
\* one as the quantifier is lazy, or <<>> when there is none
GroupAt(s, p) ==
    LET lengths == GroupLengths(s, p)
    IN IF lengths = {} THEN <<>>
       ELSE <<SubSeq(s, p + 1, p + (CHOOSE k \in lengths : \A j \in lengths : k <= j))>>

\* the match of the whole pattern starting at offset p: the prefix is taken
\* when it is there and the rest matches after it, given up otherwise
MatchAt(s, p) ==
    IF HexPrefixAt(s, p) /\ GroupAt(s, p + HexLen + 2) # <<>>
    THEN GroupAt(s, p + HexLen + 2)
    ELSE GroupAt(s, p)

\* re.search(name_only_pattern, s): the match at the leftmost offset that
\* has one, <<>> for None
RECURSIVE SearchFrom(_, _)
SearchFrom(s, p) ==
    IF p >= Len(s) THEN <<>>
    ELSE IF MatchAt(s, p) # <<>> THEN MatchAt(s, p)
    ELSE SearchFrom(s, p + 1)

ReSearch(s) == SearchFrom(s, 0)

\* lines 353-356: re.search(...).group(1), the name left unchanged when
\* the AttributeError of a failed search is caught
NameOnly(name) ==
    IF ReSearch(name) = <<>> THEN name ELSE ReSearch(name)[1]

\* the alphabet of the raw names: two letters, a digit, space, '.', '-', '_'
NameAlphabet == {"a", "N", "1", " ", ".", "-", "_"}

MaxNameLen == 4

\* every str over the alphabet up to the bound
ShortNames == UNION {[1..n -> NameAlphabet] : n \in 0..MaxNameLen}

\* a sha256 digest in hexadecimal, as the catalog prefixes file names
HexDigest ==
    [i \in 1..HexLen |->
        <<"e", "3", "b", "0", "c", "4", "4", "2", "9", "8", "f", "c", "1",
          "c", "1", "4">>[((i - 1) % 16) + 1]]

\* names with the digest prefix and names with a version
LongNames ==
    {HexDigest \o <<"-", "-", "M", "y", " ", "A", "p", "p", " ", "2", ".", "1", ".", "p", "k", "g">>,
     HexDigest \o <<"-", "-">>,
     HexDigest \o <<"-", "M", "y", " ", "A", "p", "p">>,
     HexDigest,
     <<"M", "y", " ", "A", "p", "p", " ", "1", "0", ".", "1", "5", ".", "7">>,
     <<"M", "y", " ", "A", "p", "p", " ", " ", "2">>,
     <<"G", "o", "o", "g", "l", "e", " ", "C", "h", "r", "o", "m", "e", ".", "d", "m", "g">>,
     <<"I", "n", "s", "t", "a", "l", "l", "e", "r">>}

RawNames == ShortNames \cup LongNames

\* basenames of the artifact while the tool gave a name
BasenamePool == {<<"M", "y", "A", "p", "p", "-", "1", ".", "0", ".", "p", "k", "g">>, <<"I", "n", "s", "t", "a", "l", "l", "e", "r">>}

\* self.install_name and pkg_path_name: <<>> for None, <<name>> for a str
IsTruthyName(opt) == opt # <<>> /\ opt[1] # <<>>

InitName ==
    /\ MatchIdle
    /\ CycleIdle
    /\ LocatorIdle
    /\ CatalogIdle
    /\ RunIdle
    /\ npc = "queried"
    /\ raw_name \in {<<>>} \cup {<<name>> : name \in RawNames}
    /\ install_name = raw_name
    /\ pkg_path \in IF IsTruthyName(raw_name) THEN BasenamePool
                    ELSE (RawNames \ {<<>>})
    /\ pkg_path_name = <<NameUnset>>
    /\ nraised = "none"

\* lines 348-360 of get_install_media_metadata
NormalizeNames ==
    /\ npc = "queried"
    /\ install_name' = IF IsTruthyName(install_name)
                       THEN <<NameOnly(install_name[1])>>
                       ELSE install_name
    /\ IF IsTruthyName(install_name')
       THEN /\ pkg_path_name' = <<>>
            /\ nraised' = "none"
       ELSE IF ReSearch(pkg_path) = <<>>
       THEN /\ pkg_path_name' = pkg_path_name
            /\ nraised' = "AttributeError"
       ELSE /\ pkg_path_name' = ReSearch(pkg_path)
            /\ nraised' = "none"
    /\ npc' = IF nraised' = "none" THEN "returned" ELSE "raised"
    /\ UNCHANGED <<raw_name, pkg_path>>
    /\ UNCHANGED <<mvars, cvars, lvars, kvars, rvars>>

NextName == NormalizeNames

SpecName == InitName /\ [][NextName]_vars

(***************************************************************************)
(* Properties of the name clean-up                                         *)
(***************************************************************************)
\* C19: the name-only pattern applied to a cleaned name gives that name
\* again, for the name from the tool and for the name from the basename
C19_NormalizeIdempotent ==
    npc = "returned" =>
        /\ IsTruthyName(install_name) => NameOnly(install_name[1]) = install_name[1]
        /\ IsTruthyName(pkg_path_name) => NameOnly(pkg_path_name[1]) = pkg_path_name[1]

\* a raw name that the clean-up shortened
C19_Witness ==
    /\ npc = "returned"
    /\ raw_name = <<<<"M", "y", " ", "A", "p", "p", " ", "1", "0", ".", "1", "5", ".", "7">>>>
    /\ install_name = <<<<"M", "y", " ", "A", "p", "p">>>>
    /\ NameOnly(NameOnly(raw_name[1])) = install_name[1]

\* C20: the clean-up never fails: the name from the tool and, without one,
\* the basename come out as the captured name when the pattern matches and
\* unchanged when it does not
C20_NormalizeNeverFails ==
    npc # "queried" =>
        /\ nraised = "none"
        /\ IsTruthyName(raw_name) => install_name = <<NameOnly(raw_name[1])>>
        /\ ~IsTruthyName(install_name) => pkg_path_name = <<NameOnly(pkg_path)>>

(***************************************************************************)
(* Further properties of the matcher                                       *)
(***************************************************************************)
\* C24: when a winner is picked by version ranking, every name of the tie
\* group (highest_vers) has the sanitized version of the first-ranked name,
\* and no surviving candidate has a greater parsed version than the winner
C24_TieGroupIsTopVersion ==
    (mpc = "returned" /\ custom_pkg_name # <<>>) =>
        LET sorted == PkgsVersionsSorted(Candidates)
            group == HighestVers(sorted)
        IN /\ \A i \in 1..Len(group) :
                 SanitizedMemo[group[i]] = SanitizedMemo[sorted[1]]
           /\ \A i \in 1..Len(Candidates) :
                 ~VersionLess(ParsedMemo[custom_pkg_name], ParsedMemo[Candidates[i]])


(* Further properties of the scratch area *)
\* C25: one call of _dmg_attach runs hdiutil attach at most twice (the first
\* run and one retry after detaching the existing mount)
C25_AtMostTwoAttachRuns == attach_tries <= 2

\* C27: the copy of a nested package and the second look-up happen at most
\* once per artifact and only for an image that holds a package; afterwards
\* the artifact is the copied package and its install type is package,
\* unless the second probe rejected the copy with OSError
C27_ReentryAtMostOnce ==
    /\ reentries <= 1
    /\ reentries = 1 =>
          /\ media = "dmg_pkg"
          /\ copied_pkg_path
          /\ install_type = "package" \/ raised = "OSError"
    /\ copied_pkg_path => reentries = 1

C27_Witness ==
    /\ cpc = "done"
    /\ reentries = 1
    /\ install_type = "package"
    /\ copied_pkg_path
    /\ use_package_map
    /\ app_vers # "unset"


(* Further properties of the metadata location *)
\* several manifests were searched and none has a mapped identifier with a
\* version
SeveralUnmapped ==
    /\ lpc # "expanded"
    /\ ManifestSearch
    /\ Len(package_infos) > 1
    /\ \A i \in 1..Len(package_infos) : ~MappedWithVersion(package_infos[i])

\* the product version the distribution manifest declares, None without one
DeclaredVersion ==
    IF distro_files = <<>> \/ ~distro_files[1].product THEN None
    ELSE distro_files[1].version

\* the member of a non-empty set of manifest indices that comes first in
\* descending directory size
FirstInSizeOrder(S) == CHOOSE i \in S : \A j \in S : BeforeInSizeOrder(i, j)

\* the call handed back the identifier and version of manifest i
ReturnedManifest(i) ==
    /\ lpc = "returned"
    /\ ReturnedId = package_infos[i].identifier
    /\ lookup = "full" => identity.app_vers = package_infos[i].version

\* the manifest of the largest directory is the one used: its pair is handed
\* back, or the call raises because that manifest lacks one of the two
LargestUsed ==
    LET first == FirstInSizeOrder(1..Len(package_infos))
        m == package_infos[first]
    IN IF Truthy(m.identifier) /\ Truthy(m.version)
       THEN ReturnedManifest(first) /\ route = "largest"
       ELSE lpc = "raised" /\ lraised = "Exception"

\* the manifests whose own version equals the declared version
VersionMatches ==
    {i \in 1..Len(package_infos) :
        DeclaredVersion # None /\ package_infos[i].version = DeclaredVersion}

\* C26 as stated: without a mapping match, the first manifest in descending
\* directory size whose version equals the declared product version is
\* returned, and the manifest of the largest directory is used when there is
\* no such manifest
C26_FirstVersionMatch ==
    SeveralUnmapped =>
        IF VersionMatches # {}
        THEN ReturnedManifest(FirstInSizeOrder(VersionMatches))
        ELSE LargestUsed

\* the manifests that have an identifier and whose version equals the
\* declared version
IdentifiedVersionMatches ==
    {i \in VersionMatches : Truthy(package_infos[i].identifier)}

\* C26: without a mapping match, the first manifest in descending directory
\* size that has an identifier and whose version equals the declared product
\* version is returned, and the manifest of the largest directory is used
\* when there is no such manifest
C26_FirstIdentifiedVersionMatch ==
    SeveralUnmapped =>
        IF IdentifiedVersionMatches # {}
        THEN /\ ReturnedManifest(FirstInSizeOrder(IdentifiedVersionMatches))
             /\ route = "distribution"
        ELSE LargestUsed

\* the distribution file declares 1.0; the largest directory's manifest is
\* com.b 2.0, a manifest without identifier has version 1.0 and lies before
\* com.a 1.0: com.a is returned
C26_Witness ==
    /\ lpc = "returned"
    /\ lookup = "full"
    /\ package_map = {}
    /\ distro_files = <<Distribution(TRUE, "com.suite", "1.0")>>
    /\ package_infos = <<Manifest(Dir_500, None, "1.0"),
                         Manifest(Dir_500_Nested, "com.a", "1.0"),
                         Manifest(Dir_50_Link, "com.b", "2.0")>>
    /\ route = "distribution"
    /\ identity.pkg_id = "com.a"
    /\ identity.app_vers = "1.0"


(***************************************************************************)
(* Utilities._run_command                                                  *)
(***************************************************************************)
\* the greatest signal number and the greatest exit status followed; run()
\* gives -N as returncode for a child ended by signal N
MaxSignal == 15
MaxExitCode == 3

ReturnCodes == (0 - MaxSignal)..MaxExitCode

\* False where a str of characters is expected
NameFalse == <<"False">>

\* characters str.strip() removes
StripChars == {" ", "\n", "\t"}

RECURSIVE LStrip(_)
LStrip(s) ==
    IF s # <<>> /\ s[1] \in StripChars THEN LStrip(Tail(s)) ELSE s

RECURSIVE RStrip(_)
RStrip(s) ==
    IF s # <<>> /\ s[Len(s)] \in StripChars
    THEN RStrip(SubSeq(s, 1, Len(s) - 1))
    ELSE s

\* str.strip()
Strip(s) == RStrip(LStrip(s))

\* what the tool wrote to stdout and stderr
StdoutPool ==
    {<<>>,
     <<"o", "k">>,
     <<" ", "o", "k", "\n">>,
     <<"e", "r", "r", "o", "r", ":", " ", "x", "\n">>}

\* lines 92-97: the return value for an exit code and the decoded output
RunCommandReturn(code, decoded_out) ==
    IF code > 0 THEN NameFalse ELSE decoded_out

InitRun ==
    /\ MatchIdle
    /\ CycleIdle
    /\ LocatorIdle
    /\ NameIdle
    /\ CatalogIdle
    /\ rpc = "called"
    /\ exit_code \in ReturnCodes
    /\ raw_stdout \in StdoutPool
    /\ nostderr \in BOOLEAN
    /\ run_return = <<>>
    /\ error_logged = FALSE

\* _run_command, lines 87-97, once the child has ended
RunCommand ==
    /\ rpc = "called"
    /\ rpc' = "returned"
    /\ run_return' = RunCommandReturn(exit_code, Strip(raw_stdout))
    /\ error_logged' = (exit_code > 0 /\ ~nostderr)
    /\ UNCHANGED <<exit_code, raw_stdout, nostderr>>
    /\ UNCHANGED <<mvars, cvars, lvars, nvars, kvars>>

NextRun == RunCommand

SpecRun == InitRun /\ [][NextRun]_vars

\* C28: _run_command returns False for every non-zero exit status, negative
\* ones included, and the captured output exactly for status 0
C28_NonZeroExitFails ==
    rpc = "returned" =>
        IF exit_code = 0 THEN run_return = Strip(raw_stdout)
        ELSE run_return = NameFalse


(***************************************************************************)
(* The catalog calls: KPKG.upload_custom_app, create_custom_app,           *)
(* update_custom_app and Utilities._validate_response                      *)
(***************************************************************************)
\* most times one app name is sent back into create_custom_app or
\* update_custom_app by an HTTP 503 answer
MaxRetries == 1

\* response.status_code: a success, "still processing", and an error
HttpCodes == {200, 503, 500}

KnownActions == {"get", "get_selfservice", "presign", "upload", "create", "update"}

\* configs.py 159-162 with the flag only
DryRun_FlagOnly(arg, default) == arg

\* configs.py 159-162: (self.arg_dry_run or self.default_dry_run) is True
DryRun(arg, default) == arg \/ default = "True"

\* what _validate_response does with a status code for an action: it returns
\* True, False or None, calls create_custom_app or update_custom_app again
\* and returns that, or reports the error and ends the process with
\* sys.exit(1)
ValidateResponse(http_code, action) ==
    IF http_code <= 204
    THEN IF action \in KnownActions THEN "True" ELSE "False"
    ELSE IF http_code = 503 /\ (action = "update" \/ Truthy("create"))
    THEN IF action = "create" THEN "create_custom_app"
         ELSE IF action = "update" THEN "update_custom_app"
         ELSE "None"
    ELSE "exit"

\* the answers the server may give to a create or update request after the
\* app name was sent back `retries` times
CodesLeft(retries) ==
    IF retries < MaxRetries THEN HttpCodes ELSE HttpCodes \ {503}

\* a request, or a look-up (code 0), added to the calls of the app name
Sent(k, action, http_code) ==
    [k EXCEPT !.calls = Append(@, [op |-> action, code |-> http_code])]

\* the return value of a function call
Return(k, value) == [k EXCEPT !.ret = value]

\* upload_custom_app, kpkg.py 203-234: the states it can end in; ret is its
\* return value, or "exit" when _validate_response ended the process
UploadCustomApp(k) ==
    IF pkg_uploaded THEN {Return(k, "True")}
    ELSE UNION {
        LET p == Sent(k, "presign", c)
            generated == ValidateResponse(c, "presign")
        IN IF generated = "exit" THEN {Return(p, "exit")}
           ELSE IF generated # "True" THEN {Return(p, "False")}
           ELSE IF dry_run THEN {Return(p, "True")}
           ELSE {LET validated == ValidateResponse(d, "upload")
                 IN [Sent(p, "upload", d) EXCEPT
                        !.ret = validated,
                        !.uploads = @ + (IF validated = "True" THEN 1 ELSE 0)]
                 : d \in HttpCodes}
        : c \in HttpCodes}

\* utils.py 601-611 and kpkg.py 293-300: what update_custom_app does when
\* _find_lib_item_match gave False
NoMatchRoute_Create(auto_create) == "create"

NoMatchRoute(auto_create) == IF auto_create THEN "create" ELSE "skip"

\* what _find_lib_item_match gives: a record of the catalog (with its sha256
\* equal to the local file's or not, and its install_enforcement), False, or
\* an exception for names it cannot tell apart
LibItemMatches ==
    {[found |-> "record", same_sha |-> same, install_enforcement |-> e] :
        same \in BOOLEAN, e \in {"continuously_enforce", "install_once"}}
    \cup {[found |-> f, same_sha |-> FALSE, install_enforcement |-> "install_once"] :
            f \in {"False", "Exception"}}

\* how a look-up of _find_lib_item_match is written into the calls
MatchOp(lib_item_dict) ==
    IF lib_item_dict.found = "record" THEN "match"
    ELSE IF lib_item_dict.found = "False" THEN "no_match"
    ELSE "match_raised"

\* kpkg.py 323-339: the enforcement of the existing entry wins, and the
\* artifact is expanded when the version is not known yet
DeferToCatalogEnforcement(k, lib_item_enforcement) ==
    IF lib_item_enforcement = "continuously_enforce"
       /\ k.custom_app_enforcement # lib_item_enforcement
    THEN IF k.app_vers_set
         THEN {[k EXCEPT !.custom_app_enforcement = lib_item_enforcement]}
         ELSE {[Sent(k, "expand", 0) EXCEPT
                    !.custom_app_enforcement = lib_item_enforcement,
                    !.app_vers_set = TRUE],
               Return(Sent(k, "expand", 0), "Exception")}
    ELSE {k}

RECURSIVE CreateCustomApp(_, _)
RECURSIVE UpdateCustomApp(_, _)

\* create_custom_app, kpkg.py 236-270, with the calls _validate_response
\* makes back into it
CreateCustomApp(k, retries) ==
    UNION {
        IF u.ret = "exit" THEN {u}
        ELSE IF u.ret # "True" THEN {Return(u, "False")}
        ELSE IF dry_run THEN {Return(u, "True")}
        ELSE UNION {
            LET s == Sent(Return(u, "running"), "create", c)
                validated == ValidateResponse(c, "create")
            IN IF validated = "create_custom_app"
               THEN CreateCustomApp(s, retries + 1)
               ELSE {Return(s, validated)}
            : c \in CodesLeft(retries)}
        : u \in UploadCustomApp(k)}

\* kpkg.py 340-348: the PATCH of update_custom_app
PatchCustomApp(k, retries) ==
    IF k.ret # "running" THEN {k}
    ELSE IF dry_run THEN {Return(k, "True")}
    ELSE UNION {
        LET s == Sent(k, "update", c)
            validated == ValidateResponse(c, "update")
        IN IF validated = "update_custom_app"
           THEN UpdateCustomApp(s, retries + 1)
           ELSE {Return(s, validated)}
        : c \in CodesLeft(retries)}

\* kpkg.py 287-348: update_custom_app after the catalog was searched
UpdateMatched(k, lib_item_dict, retries) ==
    IF lib_item_dict.found = "Exception" THEN {Return(k, "Exception")}
    ELSE IF lib_item_dict.found = "False"
    THEN IF NoMatchRoute(default_auto_create) = "create"
         THEN CreateCustomApp(k, retries)
         ELSE {Return(k, "False")}
    ELSE IF lib_item_dict.same_sha THEN {Return(k, "True")}
    ELSE UNION {
        IF u.ret = "exit" THEN {u}
        ELSE IF u.ret # "True" THEN {Return(u, "False")}
        ELSE UNION {PatchCustomApp(e, retries) :
                e \in DeferToCatalogEnforcement(Return(u, "running"),
                                                lib_item_dict.install_enforcement)}
        : u \in UploadCustomApp(k)}

\* update_custom_app, kpkg.py 272-348, with the calls _validate_response
\* makes back into it
UpdateCustomApp(k, retries) ==
    UNION {
        LET g == Sent(k, "get", c)
            got == ValidateResponse(c, "get")
        IN IF got = "exit" THEN {Return(g, "exit")}
           ELSE IF got # "True" THEN {Return(g, "Exception")}
           ELSE UNION {UpdateMatched(Sent(g, MatchOp(m), 0), m, retries) :
                       m \in LibItemMatches}
        : c \in HttpCodes}

Enforcements == {"continuously_enforce", "install_once"}

\* the object when main enters its loop over self.app_names
InitCatalog ==
    /\ MatchIdle
    /\ CycleIdle
    /\ LocatorIdle
    /\ NameIdle
    /\ RunIdle
    /\ kpc = "loop"
    /\ app_names_left \in 1..MaxAppNames
    /\ arg_dry_run \in BOOLEAN
    /\ default_dry_run \in {"True", "False", "None"}
    /\ dry_run = DryRun(arg_dry_run, default_dry_run)
    /\ default_auto_create \in BOOLEAN
    /\ arg_create_new \in BOOLEAN
    /\ custom_app_enforcement \in Enforcements
    /\ app_vers_set = (custom_app_enforcement = "continuously_enforce")
    /\ pkg_uploaded = FALSE
    /\ calls = <<>>
    /\ uploads = 0
    /\ returned = "none"

\* kandji_customize_create_update for the next entry of self.app_names,
\* kpkg.py 350-359 and 380-390
KandjiCustomizeCreateUpdateCalls ==
    /\ kpc = "loop"
    /\ app_names_left > 0
    /\ LET k == [calls |-> <<>>, uploads |-> uploads,
                 custom_app_enforcement |-> custom_app_enforcement,
                 app_vers_set |-> app_vers_set, ret |-> "running"]
           ends == IF arg_create_new THEN CreateCustomApp(k, 0)
                   ELSE UpdateCustomApp(k, 0)
       IN \E r \in ends :
             /\ calls' = r.calls
             /\ uploads' = r.uploads
             /\ custom_app_enforcement' = r.custom_app_enforcement
             /\ app_vers_set' = r.app_vers_set
             /\ returned' = r.ret
             /\ kpc' = IF r.ret = "exit" THEN "exited"
                       ELSE IF r.ret = "Exception" THEN "raised"
                       ELSE "loop"
    /\ app_names_left' = app_names_left - 1
    /\ UNCHANGED <<arg_dry_run, default_dry_run, dry_run, default_auto_create,
                   arg_create_new, pkg_uploaded>>
    /\ UNCHANGED <<mvars, cvars, lvars, nvars, rvars>>

\* the loop of main has visited every entry
AppNamesDone ==
    /\ kpc = "loop"
    /\ app_names_left = 0
    /\ kpc' = "finished"
    /\ UNCHANGED <<app_names_left, arg_dry_run, default_dry_run, dry_run,
                   default_auto_create, arg_create_new, custom_app_enforcement,
                   app_vers_set, pkg_uploaded, calls, uploads, returned>>
    /\ UNCHANGED <<mvars, cvars, lvars, nvars, rvars>>

NextCatalog == KandjiCustomizeCreateUpdateCalls \/ AppNamesDone

SpecCatalog == InitCatalog /\ [][NextCatalog]_vars

KTypeOK ==
    /\ kpc \in {"loop", "finished", "exited", "raised"}
    /\ app_names_left \in 0..MaxAppNames
    /\ returned \in {"none", "True", "False", "None", "exit", "Exception"}
    /\ uploads \in 0..(MaxAppNames * (MaxRetries + 1))
    /\ pkg_uploaded = FALSE


(***************************************************************************)
(* Properties of the catalog calls                                         *)
(***************************************************************************)
\* the operations among the calls of the current app name
Ops(from, to) == {calls[i].op : i \in from..to}

\* the calls at which a search of the catalog ended with no match
NoMatchCalls == {i \in 1..Len(calls) : calls[i].op = "no_match"}

\* C21: after a search that ended with no match, update_custom_app goes on
\* into create_custom_app when auto-creation is enabled (the presign request
\* of its upload step follows, only upload and create requests come after
\* it, and a True result means the create POST succeeded or the run is dry);
\* without auto-creation nothing follows the search and the result is False
C21_NoMatchCreatesOrSkips ==
    \A i \in NoMatchCalls :
        IF default_auto_create
        THEN /\ i < Len(calls)
             /\ calls[i + 1].op = "presign"
             /\ Ops(i + 1, Len(calls)) \subseteq {"presign", "upload", "create"}
             /\ returned = "True" =>
                   \/ dry_run
                   \/ calls[Len(calls)] = [op |-> "create", code |-> 200]
        ELSE /\ i = Len(calls)
             /\ returned = "False"

\* no match with auto-creation: presign, upload and the create POST follow
C21_Witness ==
    /\ ~arg_create_new
    /\ default_auto_create
    /\ returned = "True"
    /\ calls = <<[op |-> "get", code |-> 200],
                 [op |-> "no_match", code |-> 0],
                 [op |-> "presign", code |-> 200],
                 [op |-> "upload", code |-> 200],
                 [op |-> "create", code |-> 200]>>

\* C22: no expansion of the artifact runs after the catalog match or after
\* the upload
C22_NoExtractionAfterMatch ==
    \A j \in 1..Len(calls) :
        calls[j].op = "expand" =>
            Ops(1, j - 1) \cap {"match", "no_match", "upload"} = {}

\* C23: with dry run set by the flag or by the config default, no file
\* upload, no create POST and no update PATCH is issued for any app name
C23_DryRunWritesNothing ==
    (arg_dry_run \/ default_dry_run = "True") =>
        /\ Ops(1, Len(calls)) \cap {"upload", "create", "update"} = {}
        /\ uploads = 0

\* a dry run set by the config default only, through an update that would
\* have uploaded and patched
C23_Witness ==
    /\ ~arg_dry_run
    /\ default_dry_run = "True"
    /\ kpc = "finished"
    /\ returned = "True"
    /\ calls = <<[op |-> "get", code |-> 200],
                 [op |-> "match", code |-> 0],
                 [op |-> "presign", code |-> 200]>>

\* C29: a 503 answer to a create or update request is followed by another
\* run of that operation; after any other answer above 204 nothing more is
\* called and the process has exited
C29_Only503OnWriteRetries ==
    \A i \in 1..Len(calls) :
        calls[i].code > 204 =>
            IF calls[i].code = 503 /\ calls[i].op \in {"create", "update"}
            THEN /\ i < Len(calls)
                 /\ calls[i + 1].op = (IF calls[i].op = "create" THEN "presign" ELSE "get")
            ELSE /\ i = Len(calls)
                 /\ kpc = "exited"

\* C30: the artifact file is uploaded at most once for one artifact
C30_UploadedAtMostOnce == uploads <= 1

====
